---- MODULE Spec2Model ----
(***************************************************************************)
(* A model of the AFI stock tracker: the persistence layer                 *)
(* (src/database), the cache layer (src/cache), the orchestrator           *)
(* (afi_stock_tracker.py) and the indicator library (src/analytics).       *)
(* Each subsystem has its own specification over the shared variables.     *)
(***************************************************************************)
EXTENDS Integers, Sequences, FiniteSets, TLC

(***************************************************************************)
(* Bounds of the model.                                                    *)
(***************************************************************************)
\* rows the whole relational store may hold
DbCapacity == 3
\* rows of one DataFrame / Series / article list handed to a save
MaxBatch == 2
\* calendar days 1..MaxDay
MaxDay == 2

\* Python's None
None == "None"

Symbols == {"AFI", "CBA"}
Days == 1..MaxDay

\* cap on the entries written to the cache stores in one behaviour
MaxWrites == 2

\* points of a series handed to an indicator: 0..MaxLen
MaxLen == 2
\* window parameters of an indicator: 1..MaxWindow
MaxWindow == 3

VARIABLES
    stock_prices,          \* table stock_prices, in id order
    dividends,             \* table dividends, in id order
    company_info,          \* table company_info, in id order
    dbres,                 \* the last persistence call: op, symbol, outcome (arg:
                           \* the data of a save_dividends / save_company_info)
    client,                \* CacheService.client is not None
    async_client,          \* CacheService.async_client is not None
    redis,                 \* the Redis server: key -> [data, expires]
    cache_table,           \* table cache: cache_key -> [data, expires_at]
    now,                   \* the clock, in seconds
    writes,                \* entries written to the two cache stores so far
    cres,                  \* what the last step was: the cache call and its outcome
    tracker,               \* the fields of the ElliotFidgeStockTracker object
    trun,                  \* the last tracker call: its inputs, data and calls made
    ind,                   \* an indicator call: inputs, name and result
    fetch,                 \* a get_multiple_symbols_data call: its tasks and calls
    monitor,               \* MonitoringService: the flag, the thread and the loops
    alpha,                 \* AsyncAlphaVantageClient: the clock and the requests
    base,                  \* a BaseAPIClient: its clock, fields and requests
    portfolio,             \* table portfolio, in id order
    transactions,          \* table transactions, in id order
    pfres,                 \* the last portfolio call: the holding and the outcome
    alert_manager          \* the AlertManager: its alerts and its last call

dbvars == <<stock_prices, dividends, company_info, dbres>>
cachevars == <<client, async_client, redis, cache_table, now, writes, cres>>
trkvars == <<tracker, trun>>
aiovars == <<fetch, monitor, alpha>>
pfvars == <<portfolio, transactions, pfres>>
auxvars == <<base, pfvars, alert_manager>>
vars == <<dbvars, cachevars, trkvars, ind, aiovars, auxvars>>

(***************************************************************************)
(* Sequence helpers.                                                       *)
(***************************************************************************)
Range(s) == {s[i] : i \in 1..Len(s)}

SeqsUpTo(S, n) == UNION {[1..k -> S] : k \in 1..n}

MapSeq(s, F(_)) == [i \in 1..Len(s) |-> F(s[i])]

\* the rows of the whole store
TotalRows == Len(stock_prices) + Len(dividends) + Len(company_info)

(***************************************************************************)
(* Inputs: a DataFrame of price bars is a sequence of (date, row) pairs,   *)
(* in iterrows() order; its index may repeat a date.                       *)
(***************************************************************************)
BarA == [Open |-> "1.00", High |-> "1.20", Low |-> "0.90", Close |-> "1.10",
         AdjClose |-> "1.10", Volume |-> "100"]
BarB == [Open |-> "2.00", High |-> "2.20", Low |-> "1.90", Close |-> "2.10",
         AdjClose |-> "2.10", Volume |-> "200"]
Bars == {BarA, BarB}

PriceFrames == SeqsUpTo([date : Days, row : Bars], MaxBatch)

\* models.StockPrice built by save_stock_prices from one (date, row)
StockPrice(symbol, e) ==
    [symbol |-> symbol, date |-> e.date,
     open_price |-> e.row.Open, high_price |-> e.row.High,
     low_price |-> e.row.Low, close_price |-> e.row.Close,
     adjusted_close |-> e.row.AdjClose, volume |-> e.row.Volume]

(***************************************************************************)
(* The check-then-add loop shared by the DatabaseManager saves.  The       *)
(* session is made with autoflush=False, so the query of every iteration   *)
(* sees the committed table only, never the objects added earlier in the   *)
(* same call.  failAt = 0: no error; failAt = k <= Len(batch): the query   *)
(* of iteration k raises SQLAlchemyError; failAt = Len(batch)+1: the       *)
(* commit raises.  The except clause rolls back and the count so far is    *)
(* returned.                                                               *)
(***************************************************************************)
CheckThenAdd(table, batch, Exists(_, _), Row(_), failAt) ==
    LET n     == IF failAt \in 1..Len(batch) THEN failAt - 1 ELSE Len(batch)
        fresh == SelectSeq(SubSeq(batch, 1, n), LAMBDA e : ~Exists(table, e))
        added == MapSeq(fresh, Row)
    IN  [table  |-> IF failAt = 0 THEN table \o added ELSE table,
         ret    |-> Len(added),
         error  |-> failAt # 0,
         raised |-> FALSE]

PriceExists(table, symbol, date) ==
    \E i \in 1..Len(table) : table[i].symbol = symbol /\ table[i].date = date

DbSaveStockPrices(table, symbol, price_data, failAt) ==
    CheckThenAdd(table, price_data,
                 LAMBDA t, e : PriceExists(t, symbol, e.date),
                 LAMBDA e : StockPrice(symbol, e), failAt)

save_stock_prices(symbol, price_data, failAt) ==
    LET r == DbSaveStockPrices(stock_prices, symbol, price_data, failAt) IN
    /\ TotalRows + Len(price_data) <= DbCapacity
    /\ stock_prices' = r.table
    /\ dbres' = [op |-> "save_stock_prices", symbol |-> symbol, arg |-> <<>>,
                 ret |-> r.ret, error |-> r.error, raised |-> r.raised]
    /\ UNCHANGED <<dividends, company_info>>

\* DatabaseManager.save_stock_data: the tracker's entry point.  price_data is
\* an Optional[DataFrame]: [none |-> TRUE] is None, rows = <<>> is empty.
NoFrame == [none |-> TRUE, rows |-> <<>>]
Frame(rows) == [none |-> FALSE, rows |-> rows]

DbSaveStockData(table, symbol, price_data, failAt) ==
    IF ~price_data.none /\ price_data.rows # <<>>
    THEN LET r == DbSaveStockPrices(table, symbol, price_data.rows, failAt)
         IN  [table |-> r.table, ret |-> (r.ret > 0), error |-> r.error,
              raised |-> FALSE]
    ELSE [table |-> table, ret |-> FALSE, error |-> FALSE, raised |-> FALSE]

save_stock_data(symbol, price_data, failAt) ==
    LET r == DbSaveStockData(stock_prices, symbol, price_data, failAt) IN
    /\ TotalRows + Len(price_data.rows) <= DbCapacity
    /\ stock_prices' = r.table
    /\ dbres' = [op |-> "save_stock_data", symbol |-> symbol, arg |-> <<>>,
                 ret |-> r.ret, error |-> r.error, raised |-> r.raised]
    /\ UNCHANGED <<dividends, company_info>>

(***************************************************************************)
(* EnhancedDatabaseManager.save_stock_prices_bulk.  The existence query    *)
(* reads the rows within one day of the bar and compares calendar days;    *)
(* new objects are collected and committed every batch_size objects, so a  *)
(* later query sees the batches committed earlier in the same call.  The   *)
(* database interactions are numbered: the query of bar i is 2i-1, the     *)
(* batch commit after bar i is 2i, the final commit is 2*Len+1; failAt     *)
(* names the one that raises (0: none).  On an error the transaction is    *)
(* rolled back and the error is raised again.                              *)
(***************************************************************************)
RECURSIVE BulkLoop(_, _, _, _, _, _, _, _)
BulkLoop(table, objs, count, i, symbol, batch, batch_size, failAt) ==
    IF i > Len(batch)
    THEN IF objs # <<>> /\ failAt = 2 * Len(batch) + 1
         THEN [table |-> table, ret |-> 0, error |-> TRUE, raised |-> TRUE]
         ELSE [table |-> table \o objs, ret |-> count, error |-> FALSE,
               raised |-> FALSE]
    ELSE IF failAt = 2 * i - 1
    THEN [table |-> table, ret |-> 0, error |-> TRUE, raised |-> TRUE]
    ELSE LET e == batch[i]
             existing_dates ==
                 {table[j].date : j \in {k \in 1..Len(table) :
                      /\ table[k].symbol = symbol
                      /\ table[k].date >= e.date - 1
                      /\ table[k].date <= e.date + 1}}
         IN  IF e.date \in existing_dates
             THEN BulkLoop(table, objs, count, i + 1, symbol, batch, batch_size,
                           failAt)
             ELSE LET objs2 == Append(objs, StockPrice(symbol, e)) IN
                  IF Len(objs2) >= batch_size
                  THEN IF failAt = 2 * i
                       THEN [table |-> table, ret |-> 0, error |-> TRUE,
                             raised |-> TRUE]
                       ELSE BulkLoop(table \o objs2, <<>>, count + 1, i + 1,
                                     symbol, batch, batch_size, failAt)
                  ELSE BulkLoop(table, objs2, count + 1, i + 1, symbol, batch,
                                batch_size, failAt)

DbSaveStockPricesBulk(table, symbol, price_data, batch_size, failAt) ==
    BulkLoop(table, <<>>, 0, 1, symbol, price_data, batch_size, failAt)

save_stock_prices_bulk(symbol, price_data, batch_size, failAt) ==
    LET r == DbSaveStockPricesBulk(stock_prices, symbol, price_data, batch_size,
                                   failAt) IN
    /\ TotalRows + Len(price_data) <= DbCapacity
    /\ stock_prices' = r.table
    /\ dbres' = [op |-> "save_stock_prices_bulk", symbol |-> symbol,
                 arg |-> <<>>, ret |-> r.ret, error |-> r.error,
                 raised |-> r.raised]
    /\ UNCHANGED <<dividends, company_info>>

\* EnhancedDatabaseManager.save_stock_prices_async: the check-then-add loop
\* with a raw SELECT (autoflush=False again); an error is rolled back and
\* raised again.
DbSaveStockPricesAsync(table, symbol, price_data, failAt) ==
    LET r == DbSaveStockPrices(table, symbol, price_data, failAt) IN
    IF r.error
    THEN [table |-> table, ret |-> 0, error |-> TRUE, raised |-> TRUE]
    ELSE r

save_stock_prices_async(symbol, price_data, failAt) ==
    LET r == DbSaveStockPricesAsync(stock_prices, symbol, price_data, failAt) IN
    /\ TotalRows + Len(price_data) <= DbCapacity
    /\ stock_prices' = r.table
    /\ dbres' = [op |-> "save_stock_prices_async", symbol |-> symbol, arg |-> <<>>,
                 ret |-> r.ret, error |-> r.error,
                 raised |-> r.raised]
    /\ UNCHANGED <<dividends, company_info>>

(***************************************************************************)
(* Dividends: a Series of amounts indexed by ex-date.                      *)
(***************************************************************************)
Amounts == {"0.14", "0.20"}

DividendSeries == SeqsUpTo([date : Days, amount : Amounts], MaxBatch)

Dividend(symbol, e) ==
    [symbol |-> symbol, ex_date |-> e.date, amount |-> e.amount,
     dividend_type |-> "regular"]

\* a query that forgets the symbol filter
DividendExists_NoSymbol(table, symbol, date) ==
    \E i \in 1..Len(table) : table[i].ex_date = date

DividendExists(table, symbol, date) ==
    \E i \in 1..Len(table) : table[i].symbol = symbol /\ table[i].ex_date = date

DbSaveDividends(table, symbol, dividend_data, failAt) ==
    CheckThenAdd(table, dividend_data,
                 LAMBDA t, e : DividendExists(t, symbol, e.date),
                 LAMBDA e : Dividend(symbol, e), failAt)

save_dividends(symbol, dividend_data, failAt) ==
    LET r == DbSaveDividends(dividends, symbol, dividend_data, failAt) IN
    /\ TotalRows + Len(dividend_data) <= DbCapacity
    /\ dividends' = r.table
    /\ dbres' = [op |-> "save_dividends", symbol |-> symbol, arg |-> dividend_data,
                 ret |-> r.ret, error |-> r.error, raised |-> r.raised]
    /\ UNCHANGED <<stock_prices, company_info>>

(***************************************************************************)
(* Company information.  company_data is a dict: a function from the keys  *)
(* it holds to a value or None.  name and sector are columns of            *)
(* models.CompanyInfo; avg_volume is a key of the provider's dict that is  *)
(* no column.                                                              *)
(***************************************************************************)
CompanyColumns == {"name", "sector"}
CompanyKeys == CompanyColumns \cup {"avg_volume"}
CompanyVals == {"a", "b"}
\* the values datetime.utcnow() may return
Instants == {1, 2}

\* the dicts handed to save_company_info: any subset of the keys, a column
\* key holding a value or None, the key that is no column holding a value
CompanyDicts ==
    {d \in UNION {[K -> CompanyVals \cup {None}] : K \in SUBSET CompanyKeys} :
        "avg_volume" \in DOMAIN d => d["avg_volume"] = "a"}

CompanyExists(table, symbol) == \E i \in 1..Len(table) : table[i].symbol = symbol

\* an update that forgets the "value is not None" test
UpdateCompany_OverwriteNone(existing, company_data, utcnow) ==
    [symbol     |-> existing.symbol,
     col        |-> [c \in CompanyColumns |->
                        IF c \in DOMAIN company_data
                        THEN company_data[c] ELSE existing.col[c]],
     updated_at |-> utcnow]

\* existing: for key, value in company_data.items():
\*               if hasattr(existing, key) and value is not None: setattr(...)
UpdateCompany(existing, company_data, utcnow) ==
    [symbol     |-> existing.symbol,
     col        |-> [c \in CompanyColumns |->
                        IF c \in DOMAIN company_data /\ company_data[c] # None
                        THEN company_data[c] ELSE existing.col[c]],
     updated_at |-> utcnow]

\* CompanyInfo(symbol=symbol, **company_data); updated_at takes its default
NewCompany(symbol, company_data, utcnow) ==
    [symbol     |-> symbol,
     col        |-> [c \in CompanyColumns |->
                        IF c \in DOMAIN company_data THEN company_data[c] ELSE None],
     updated_at |-> utcnow]

\* fail: the commit raises SQLAlchemyError.  A new row whose name is NULL
\* violates nullable=False: the commit raises IntegrityError.  A key that is
\* no attribute of the model makes the constructor raise TypeError, which
\* the except clause does not catch.
DbSaveCompanyInfo(table, symbol, company_data, utcnow, fail) ==
    IF CompanyExists(table, symbol)
    THEN IF fail
         THEN [table |-> table, ret |-> FALSE, error |-> TRUE, raised |-> FALSE]
         ELSE [table  |-> [i \in 1..Len(table) |->
                              IF table[i].symbol = symbol
                              THEN UpdateCompany(table[i], company_data, utcnow)
                              ELSE table[i]],
               ret |-> TRUE, error |-> FALSE, raised |-> FALSE]
    ELSE IF ~(DOMAIN company_data \subseteq CompanyColumns)
    THEN [table |-> table, ret |-> FALSE, error |-> FALSE, raised |-> TRUE]
    ELSE LET row == NewCompany(symbol, company_data, utcnow) IN
         IF fail \/ row.col["name"] = None
         THEN [table |-> table, ret |-> FALSE, error |-> TRUE, raised |-> FALSE]
         ELSE [table |-> Append(table, row), ret |-> TRUE, error |-> FALSE,
               raised |-> FALSE]

save_company_info(symbol, company_data, utcnow, fail) ==
    LET r == DbSaveCompanyInfo(company_info, symbol, company_data, utcnow, fail) IN
    /\ TotalRows + 1 <= DbCapacity
    /\ company_info' = r.table
    /\ dbres' = [op |-> "save_company_info", symbol |-> symbol, arg |-> company_data,
                 ret |-> r.ret, error |-> r.error, raised |-> r.raised]
    /\ UNCHANGED <<stock_prices, dividends>>

DbInit ==
    /\ stock_prices = <<>>
    /\ dividends = <<>>
    /\ company_info = <<>>
    /\ dbres = [op |-> "init", symbol |-> None, arg |-> <<>>, ret |-> 0,
                error |-> FALSE, raised |-> FALSE]

FailPoints(batch) == 0..(Len(batch) + 1)

\* what the store can still take
Room == DbCapacity - TotalRows
Fits(S) == {b \in S : Len(b) <= Room}

PricesNext ==
    \/ \E s \in Symbols, b \in Fits(PriceFrames) : \E f \in FailPoints(b) :
          save_stock_prices(s, b, f)
    \/ \E s \in Symbols, b \in Fits(PriceFrames \cup {<<>>}), n \in BOOLEAN :
          \E f \in FailPoints(b) :
              save_stock_data(s, IF n THEN NoFrame ELSE Frame(b), f)
    \/ \E s \in Symbols, b \in Fits(PriceFrames), z \in 1..MaxBatch :
          \E f \in 0..(2 * Len(b) + 1) : save_stock_prices_bulk(s, b, z, f)
    \/ \E s \in Symbols, b \in Fits(PriceFrames) : \E f \in FailPoints(b) :
          save_stock_prices_async(s, b, f)

DividendsNext ==
    \E s \in Symbols, b \in Fits(DividendSeries) : \E f \in FailPoints(b) :
        save_dividends(s, b, f)

CompanyNext ==
    \E s \in Symbols, d \in CompanyDicts, t \in Instants, f \in BOOLEAN :
        save_company_info(s, d, t, f)


(***************************************************************************)
(* cache/cache_service.py: the Redis-backed CacheService.                  *)
(* An Optional value is a sequence: <<>> is None, <<v>> is the value v.    *)
(***************************************************************************)
Nothing == <<>>
Some(v) == <<v>>

\* Python values handed to the cache.  A dict {"k": leaf} holds one leaf, a
\* str or a datetime; a DataFrame (as any object that is no dict and no
\* list) is its own payload.
Containers == {[kind |-> "dict", leaf |-> [t |-> "str", v |-> "2024-03-01"]],
               [kind |-> "dict", leaf |-> [t |-> "datetime", v |-> "2024-03-01"]]}
Scalars == {[kind |-> "DataFrame", leaf |-> [t |-> "float", v |-> "1.5"]]}
PyValues == Containers \cup Scalars

\* json.dumps(data, default=str): a str or a float is written as a JSON
\* string or number; anything else is first turned into str(value)
JsonDumps(data) ==
    [kind |-> data.kind,
     leaf |-> IF data.leaf.t = "float"
              THEN [t |-> "number", v |-> data.leaf.v]
              ELSE [t |-> "string", v |-> data.leaf.v]]

\* json.loads: a JSON string is read as str, a JSON number as float
JsonLoads(doc) ==
    [kind |-> doc.kind,
     leaf |-> IF doc.leaf.t = "number"
              THEN [t |-> "float", v |-> doc.leaf.v]
              ELSE [t |-> "str", v |-> doc.leaf.v]]

_serialize_data(data) ==
    IF data.kind = "DataFrame" THEN [fmt |-> "pickle", obj |-> data]
    ELSE IF data.kind \in {"dict", "list"}
         THEN [fmt |-> "json", doc |-> JsonDumps(data)]
         ELSE [fmt |-> "pickle", obj |-> data]

\* pickle.loads raises on JSON text ("[" and "{" are no pickle opcodes), so
\* JSON bytes fall through to json.loads
_deserialize_data(data) ==
    IF data.fmt = "pickle" THEN data.obj ELSE JsonLoads(data.doc)

\* self.ttl_settings, in seconds
TtlCurrent == 60
TtlHistorical == 3600
TtlCompanyInfo == 86400
TtlIndicators == 1800
TtlNews == 900
TtlDividends == 86400
TtlDefault == 1800

ttl_settings(cache_type) ==
    CASE cache_type = "stock_price_current"    -> TtlCurrent
      [] cache_type = "stock_price_historical" -> TtlHistorical
      [] cache_type = "company_info"           -> TtlCompanyInfo
      [] cache_type = "technical_indicators"   -> TtlIndicators
      [] cache_type = "news"                   -> TtlNews
      [] cache_type = "dividends"              -> TtlDividends
      [] OTHER                                 -> TtlDefault

\* a set that takes the table's entry although a ttl was passed
ResolveTtl_TableOnly(ttl, cache_type) == ttl_settings(cache_type)

\* ttl = ttl or self.ttl_settings.get(cache_type, self.ttl_settings['default'])
\* ttl is Nothing for None and Some(n) for the integer n; None and 0 are
\* both falsy
ResolveTtl(ttl, cache_type) ==
    IF ttl # Nothing /\ ttl[1] # 0 THEN ttl[1] ELSE ttl_settings(cache_type)

RECURSIVE Join(_, _)
Join(strs, sep) ==
    IF strs = <<>> THEN ""
    ELSE IF Len(strs) = 1 THEN strs[1]
    ELSE strs[1] \o sep \o Join(Tail(strs), sep)

\* sorted(kwargs.items()): the keyword names in alphabetical order
KwOrder == <<"period", "symbol">>
\* the items in the order of the call, unsorted
SortedItems_CallOrder(kwargs) ==
    [i \in 1..Len(kwargs) |-> kwargs[i][1] \o "=" \o kwargs[i][2]]

\* kwargs is the sequence of its <<name, value>> items in the order of the
\* call, which is the order the dict keeps
SortedItems(kwargs) ==
    LET names == SelectSeq(KwOrder, LAMBDA k : \E p \in Range(kwargs) : p[1] = k)
        val(k) == (CHOOSE p \in Range(kwargs) : p[1] = k)[2]
    IN  [i \in 1..Len(names) |-> names[i] \o "=" \o val(names[i])]

KeyLimit == 200
\* hashlib.md5(...).hexdigest(), taken as collision-free
Md5(text) == "md5(" \o text \o ")"

_generate_key(prefix, args, kwargs) ==
    LET head     == prefix \o ":" \o Join(args, ":")
        key_data == IF kwargs # <<>>
                    THEN head \o ":" \o Join(SortedItems(kwargs), ":")
                    ELSE head
    IN  IF Len(key_data) > KeyLimit
        THEN prefix \o ":hash:" \o Md5(key_data)
        ELSE key_data

(***************************************************************************)
(* The Redis server.  An entry written by SETEX at time t with ttl seconds *)
(* is no longer returned from t + ttl on; the server removes it then or    *)
(* later.  An entry also remembers the value that was handed to set: the   *)
(* server holds only data, the checks compare what a get returns with      *)
(* value.                                                                  *)
(***************************************************************************)
Put(store, key, entry) ==
    [k \in DOMAIN store \cup {key} |-> IF k = key THEN entry ELSE store[k]]
Remove(store, key) == [k \in DOMAIN store \ {key} |-> store[k]]

RedisGet(store, key, t) ==
    IF key \in DOMAIN store /\ t < store[key].expires
    THEN Some(store[key].data) ELSE Nothing

\* the expiry of an entry written by SET, without a time to live
NeverExpires == 2000000000

\* CacheService.set / set_async; conn: the client is not None; raises: the
\* store raises on SETEX, as it does for a negative time to live
CacheSet(conn, store, key, value, ttl, cache_type, raises, t) ==
    LET seconds == ResolveTtl(ttl, cache_type) IN
    IF ~conn THEN [store |-> store, ret |-> FALSE]
    ELSE IF raises \/ seconds < 0 THEN [store |-> store, ret |-> FALSE]
    ELSE [store |-> Put(store, key,
                        [data    |-> _serialize_data(value),
                         expires |-> IF seconds # 0 THEN t + seconds
                                     ELSE NeverExpires,
                         value   |-> value]),
          ret   |-> TRUE]

\* a get that returns what the store holds although the read raised
CacheGet_IgnoresRaise(conn, store, key, raises, t) ==
    IF ~conn THEN Nothing
    ELSE LET data == RedisGet(store, key, t) IN
         IF data = Nothing THEN Nothing ELSE Some(_deserialize_data(data[1]))

\* CacheService.get / get_async
CacheGet(conn, store, key, raises, t) ==
    IF ~conn \/ raises THEN Nothing
    ELSE LET data == RedisGet(store, key, t) IN
         IF data = Nothing THEN Nothing ELSE Some(_deserialize_data(data[1]))

Conn(is_async) == IF is_async THEN async_client ELSE client

\* value: what the wrapped provider call returned (cached only); ret: the
\* Optional value returned; ok: the bool returned; raises: a store operation
\* of the call raised
CacheRes(op, key, value, ret, ok, raises, calls) ==
    [op |-> op, key |-> key, value |-> value, ret |-> ret, ok |-> ok,
     raises |-> raises, calls |-> calls]

\* connect / connect_async.  outcome: "ok", "ping" (ping raises after the
\* client was assigned) or "url" (from_url raises)
connect(is_async, outcome) ==
    /\ IF is_async
       THEN /\ async_client' = (IF outcome = "url" THEN async_client ELSE TRUE)
            /\ UNCHANGED client
       ELSE /\ client' = (IF outcome = "url" THEN client ELSE TRUE)
            /\ UNCHANGED async_client
    /\ cres' = CacheRes("connect", "", Nothing, Nothing, outcome = "ok", FALSE, 0)
    /\ UNCHANGED <<redis, cache_table, now, writes, dbvars>>

\* disconnect / disconnect_async
disconnect(is_async) ==
    /\ IF is_async
       THEN async_client' = FALSE /\ UNCHANGED client
       ELSE client' = FALSE /\ UNCHANGED async_client
    /\ cres' = CacheRes("disconnect", "", Nothing, Nothing, FALSE, FALSE, 0)
    /\ UNCHANGED <<redis, cache_table, now, writes, dbvars>>

set(key, value, ttl, cache_type, raises) ==
    LET r == CacheSet(client, redis, key, value, ttl, cache_type, raises, now)
        n == IF r.ret THEN writes + 1 ELSE writes
    IN  /\ n <= MaxWrites
        /\ redis' = r.store
        /\ writes' = n
        /\ cres' = CacheRes("set", key, Nothing, Nothing, r.ret,
                            client /\ (raises \/ ResolveTtl(ttl, cache_type) < 0), 0)
        /\ UNCHANGED <<client, async_client, cache_table, now, dbvars>>

get(key, raises) ==
    /\ cres' = CacheRes("get", key, Nothing,
                        CacheGet(client, redis, key, raises, now), FALSE,
                        client /\ raises, 0)
    /\ UNCHANGED <<client, async_client, redis, cache_table, now, writes, dbvars>>

delete(key, raises) ==
    /\ redis' = IF client /\ ~raises /\ key \in DOMAIN redis
                THEN Remove(redis, key) ELSE redis
    /\ cres' = CacheRes("delete", key, Nothing, Nothing, client /\ ~raises,
                        client /\ raises, 0)
    /\ UNCHANGED <<client, async_client, cache_table, now, writes, dbvars>>

\* the server drops an expired entry
redis_expire(key) ==
    /\ key \in DOMAIN redis
    /\ redis[key].expires <= now
    /\ redis' = Remove(redis, key)
    /\ cres' = CacheRes("redis_expire", key, Nothing, Nothing, FALSE, FALSE, 0)
    /\ UNCHANGED <<client, async_client, cache_table, now, writes, dbvars>>

(***************************************************************************)
(* The cached / async_cached decorators, as applied to the methods of     *)
(* CachedYahooFinanceClient.  result is what the wrapped provider call     *)
(* returns (None included); the provider is called only where calls = 1.   *)
(* A client built without a cache service has _cache_service = None.       *)
(***************************************************************************)
\* texts are spelled out as sequences of characters where a pattern is
\* matched against them
Spell(chars) == Join(chars, "")

\* symbols a caller passes: Ford, AFIC and Commonwealth Bank on the ASX
SymF == <<"F">>
SymAfi == <<"A", "F", "I", ".", "A", "X">>
SymCba == <<"C", "B", "A", ".", "A", "X">>
ClearSymbols == {SymF, SymAfi, SymCba}

\* self.symbol of YahooFinanceClient, used when no symbol is passed
DefaultSymbol == Spell(SymAfi)

PriceMethod == <<"g", "e", "t", "_", "c", "u", "r", "r", "e", "n", "t", "_", "p", "r", "i", "c", "e">>

\* get_current_price(symbol) for each symbol, and get_current_price()
SymbolCalls ==
    {[method |-> Spell(PriceMethod), args |-> <<Spell(s)>>, kwargs |-> <<>>] :
        s \in ClearSymbols}
    \cup {[method |-> Spell(PriceMethod), args |-> <<>>, kwargs |-> <<>>]}

\* the symbol whose data a call caches
SymbolOf(call) ==
    IF call.args # <<>> THEN call.args[1]
    ELSE IF \E p \in Range(call.kwargs) : p[1] = "symbol"
    THEN (CHOOSE p \in Range(call.kwargs) : p[1] = "symbol")[2]
    ELSE DefaultSymbol

\* the calls made: get_current_price("AFI"), get_company_info(symbol="AFI")
Calls == {[method |-> "get_current_price", args |-> <<"AFI">>, kwargs |-> <<>>],
          [method |-> "get_company_info", args |-> <<>>,
           kwargs |-> <<<<"symbol", "AFI">>>>]}

\* @cached(cache_type=..., ttl=...) of each method
DecoratorType(method) ==
    IF method = "get_current_price" THEN "stock_price_current" ELSE "company_info"
DecoratorTtl(method) ==
    IF method = "get_current_price" THEN TtlCurrent ELSE TtlCompanyInfo

\* key = self._cache_service._generate_key(func.__name__, *args, **kwargs),
\* tabulated over the calls made
GeneratedKey ==
    [c \in Calls \cup SymbolCalls |-> _generate_key(c.method, c.args, c.kwargs)]

CacheKeys == {GeneratedKey[c] : c \in Calls}

\* a wrapper that never populates the cache
CachedCall_NeverStores(service, conn, store, call, result, get_raises, set_raises, t) ==
    LET key           == GeneratedKey[call]
        cached_result == CacheGet(conn, store, key, get_raises, t)
    IN  IF ~service
        THEN [store |-> store, key |-> "", ret |-> result, calls |-> 1,
              wrote |-> FALSE, raises |-> FALSE]
        ELSE IF cached_result # Nothing
        THEN [store |-> store, key |-> key, ret |-> cached_result, calls |-> 0,
              wrote |-> FALSE, raises |-> FALSE]
        ELSE [store |-> store, key |-> key, ret |-> result, calls |-> 1,
              wrote |-> FALSE, raises |-> conn /\ get_raises]

\* wrapper(self, *args, **kwargs).  service: self._cache_service is set;
\* without it the wrapped method is called directly and no key is generated
CachedCall(service, conn, store, call, result, get_raises, set_raises, t) ==
    LET method        == call.method
        key           == GeneratedKey[call]
        cached_result == CacheGet(conn, store, key, get_raises, t)
    IN  IF ~service
        THEN [store |-> store, key |-> "", ret |-> result, calls |-> 1,
              wrote |-> FALSE, raises |-> FALSE]
        ELSE IF cached_result # Nothing
        THEN [store |-> store, key |-> key, ret |-> cached_result, calls |-> 0,
              wrote |-> FALSE, raises |-> FALSE]
        ELSE IF result # Nothing
        THEN LET r == CacheSet(conn, store, key, result[1], Some(DecoratorTtl(method)),
                               DecoratorType(method), set_raises, t)
             IN  [store |-> r.store, key |-> key, ret |-> result, calls |-> 1,
                  wrote |-> r.ret, raises |-> conn /\ (get_raises \/ set_raises)]
        ELSE [store |-> store, key |-> key, ret |-> result, calls |-> 1,
              wrote |-> FALSE, raises |-> conn /\ get_raises]

cached(is_async, service, call, result, get_raises, set_raises) ==
    LET r == CachedCall(service, Conn(is_async), redis, call, result,
                        get_raises, set_raises, now)
        n == IF r.wrote THEN writes + 1 ELSE writes
    IN  /\ n <= MaxWrites
        /\ redis' = r.store
        /\ writes' = n
        /\ cres' = CacheRes(IF is_async THEN "async_cached" ELSE "cached", r.key,
                            result, r.ret, FALSE, r.raises, r.calls)
        /\ UNCHANGED <<client, async_client, cache_table, now, dbvars>>

(***************************************************************************)
(* DatabaseManager.get_cached_data / set_cached_data on table cache.       *)
(***************************************************************************)
HourSeconds == 3600
ExpiresInHours == 1

\* fail: the session raises SQLAlchemyError.  With an entry of the key in
\* the table, the flush inserts the new row before it deletes the old one,
\* and the unique cache_key makes the insert raise IntegrityError.
DbSetCachedData(table, cache_key, data, expires_in_hours, fail, t) ==
    IF fail \/ cache_key \in DOMAIN table
    THEN [table |-> table, ret |-> FALSE]
    ELSE [table |-> Put(table, cache_key,
                        [data       |-> JsonDumps(data),
                         expires_at |-> t + expires_in_hours * HourSeconds,
                         value      |-> data]),
          ret   |-> TRUE]

set_cached_data(cache_key, data, fail) ==
    LET r == DbSetCachedData(cache_table, cache_key, data, ExpiresInHours, fail, now)
        n == IF r.ret THEN writes + 1 ELSE writes
    IN  /\ n <= MaxWrites
        /\ cache_table' = r.table
        /\ writes' = n
        /\ cres' = CacheRes("set_cached_data", cache_key, Nothing, Nothing, r.ret,
                            fail, 0)
        /\ UNCHANGED <<client, async_client, redis, now, dbvars>>

\* a live entry is returned; an expired one is deleted and None returned
DbGetCachedData(table, cache_key, fail, t) ==
    IF fail \/ cache_key \notin DOMAIN table
    THEN [table |-> table, ret |-> Nothing]
    ELSE IF table[cache_key].expires_at > t
    THEN [table |-> table, ret |-> Some(JsonLoads(table[cache_key].data))]
    ELSE [table |-> Remove(table, cache_key), ret |-> Nothing]

get_cached_data(cache_key, fail) ==
    LET r == DbGetCachedData(cache_table, cache_key, fail, now) IN
    /\ cache_table' = r.table
    /\ cres' = CacheRes("get_cached_data", cache_key, Nothing, r.ret, FALSE,
                        fail, 0)
    /\ UNCHANGED <<client, async_client, redis, now, writes, dbvars>>

\* time passes: up to the last second before an expiry, or to the expiry
Expiries == {redis[k].expires : k \in DOMAIN redis}
                \cup {cache_table[k].expires_at : k \in DOMAIN cache_table}
Tick(t) ==
    /\ t > now
    /\ \E e \in Expiries : t \in {e - 1, e}
    /\ now' = t
    /\ cres' = CacheRes("Tick", "", Nothing, Nothing, FALSE, FALSE, 0)
    /\ UNCHANGED <<client, async_client, redis, cache_table, writes, dbvars>>

CacheInit ==
    /\ client = FALSE
    /\ async_client = FALSE
    /\ redis = <<>>
    /\ cache_table = <<>>
    /\ now = 0
    /\ writes = 0
    /\ cres = CacheRes("init", "", Nothing, Nothing, FALSE, FALSE, 0)

\* the (ttl, cache_type) arguments of a direct set: the table's entry, an
\* explicit ttl, a type the table does not hold
TtlArgs == {<<Nothing, "news">>, <<Some(TtlCurrent), "news">>}

\* whether the store raises on a call: only a call that reaches the store
\* can meet a fault
StoreFaults(service) == IF service THEN BOOLEAN ELSE {FALSE}

\* the synchronous service: direct calls and the cached decorator
CacheNext ==
    \/ \E o \in {"ok", "ping", "url"} : connect(FALSE, o)
    \/ disconnect(FALSE)
    \/ \E k \in CacheKeys, v \in PyValues, t \in TtlArgs, r \in BOOLEAN :
          set(k, v, t[1], t[2], r)
    \/ \E k \in CacheKeys, r \in BOOLEAN : get(k, r)
    \/ \E k \in CacheKeys, r \in BOOLEAN : delete(k, r)
    \/ \E k \in CacheKeys : redis_expire(k)
    \/ \E s \in BOOLEAN, c \in Calls, v \in {Nothing} \cup {Some(x) : x \in Scalars} :
          \E g, r \in StoreFaults(s) : cached(FALSE, s, c, v, g, r)
    \/ \E e \in Expiries, d \in {-1, 0} : Tick(e + d)

\* the two decorators, cached and async_cached, each over its own client
CachedNext ==
    \/ \E a \in BOOLEAN, o \in {"ok", "ping", "url"} : connect(a, o)
    \/ \E a \in BOOLEAN : disconnect(a)
    \/ \E k \in CacheKeys : redis_expire(k)
    \/ \E a, s \in BOOLEAN, c \in Calls,
          v \in {Nothing} \cup {Some(x) : x \in PyValues} :
          \E g, r \in StoreFaults(s) : cached(a, s, c, v, g, r)
    \/ \E e \in Expiries, d \in {-1, 0} : Tick(e + d)

DbCacheNext ==
    \/ \E k \in CacheKeys, v \in Containers, f \in BOOLEAN : set_cached_data(k, v, f)
    \/ \E k \in CacheKeys, f \in BOOLEAN : get_cached_data(k, f)
    \/ \E e \in Expiries, d \in {-1, 0} : Tick(e + d)

(***************************************************************************)
(* The orchestrator, ElliotFidgeStockTracker (afi_stock_tracker.py).       *)
(* tracker holds the fields of the object: symbol, and for each optional   *)
(* component whether the field holds a client (TRUE) or None (FALSE).      *)
(***************************************************************************)
\* AlphaVantageClient.__init__(self, api_key) has a required parameter: the
\* construction succeeds only when the key is passed, else TypeError
AlphaVantageClient(api_key_passed) == api_key_passed

\* self.symbol: the upper-case code, ".AX" appended when it is not there and
\* the symbol is at most 4 letters; symbol is the pair (code, suffix typed)
TrackerSymbol(code, suffix) ==
    LET symbol == code \o suffix
        isalpha == (suffix = "")
    IN  IF suffix # ".AX" /\ Len(symbol) <= 4 /\ isalpha
        THEN symbol \o ".AX" ELSE symbol

\* __init__: the optional fields start as None; the Alpha Vantage client is
\* constructed without arguments, and a failure leaves the field None.
\* The news client and the predictive analyzer are only constructed in the
\* statements that follow the return of _get_display_name, which never run.
NewTracker(code, suffix, ALPHA_VANTAGE_AVAILABLE, has_api_key) ==
    [symbol |-> TrackerSymbol(code, suffix),
     alpha_vantage_client |->
         IF ALPHA_VANTAGE_AVAILABLE /\ has_api_key
         THEN AlphaVantageClient(FALSE) ELSE FALSE,
     news_client |-> FALSE]

\* what yfinance does in one call of the primary provider: it raises, or it
\* delivers an Optional[DataFrame]
ProviderOutcomes ==
    {[raises |-> TRUE, frame |-> NoFrame]} \cup
    {[raises |-> FALSE, frame |-> f] :
        f \in {NoFrame, Frame(<<>>)} \cup {Frame(r) : r \in PriceFrames}}

\* YahooFinanceClient.get_historical_data: an exception is logged, None returned
get_historical_data(outcome) == IF outcome.raises THEN NoFrame ELSE outcome.frame

\* YahooFinanceClient.get_current_price / get_company_info: Optional results
CurrentPrices == {Nothing, Some("1.10")}
CompanyInfos == {Nothing, Some("Australian Foundation Investment Company")}

\* NewsClient.get_financial_news as the tracker sees it: raises, or a list
NewsOutcomes(news_client) ==
    IF news_client
    THEN {[raises |-> TRUE, articles |-> <<>>], [raises |-> FALSE, articles |-> <<>>],
          [raises |-> FALSE, articles |-> <<"headline">>]}
    ELSE {[raises |-> FALSE, articles |-> <<>>]}

\* the dict data of get_comprehensive_data: its keys, and the value of each
EmptyData ==
    [keys |-> {}, historical |-> NoFrame, current_price |-> Nothing,
     company_info |-> Nothing, news |-> <<>>]

\* get_comprehensive_data.  No statement of the primary block raises: every
\* YahooFinanceClient method and save_stock_data catch Exception themselves,
\* and save_dividend_data is no attribute of DatabaseManager.  The Alpha
\* Vantage block calls get_daily_data, which AlphaVantageClient does not have:
\* the AttributeError is caught and data stays as it is.
GetComprehensiveData(self, table, hist_data, current_price, info, failAt, news) ==
    LET got   == ~hist_data.none /\ hist_data.rows # <<>>
        saved == DbSaveStockData(table, self.symbol, hist_data, failAt)
        d1    == IF got
                 THEN [EmptyData EXCEPT
                          !.keys = {"historical", "current_price", "company_info",
                                    "dividends"},
                          !.historical = hist_data,
                          !.current_price = current_price,
                          !.company_info = info]
                 ELSE EmptyData
        d2    == IF self.alpha_vantage_client
                 THEN d1    \* get_daily_data: AttributeError, caught
                 ELSE d1
        d3    == IF /\ self.news_client /\ ~news.raises
                    /\ Len(news.articles) > 0
                 THEN [d2 EXCEPT !.keys = @ \cup {"news"},
                                 !.news = news.articles]
                 ELSE d2
    IN  [data |-> d3, table |-> IF got THEN saved.table ELSE table]

\* a run_analysis that forgets the "if not data" test
RunAnalysis_NoDataTest(data) ==
    <<"get_comprehensive_data", "perform_technical_analysis",
      "perform_financial_analysis", "display_comprehensive_report">>

\* run_analysis after get_comprehensive_data: the calls it makes, in order
RunAnalysis(data) ==
    IF data.keys = {}
    THEN <<"get_comprehensive_data">>
    ELSE <<"get_comprehensive_data", "perform_technical_analysis",
           "perform_financial_analysis", "display_comprehensive_report">>

TrackerRes(op, primary, data, steps) ==
    [op |-> op, primary |-> primary, data |-> data, steps |-> steps]

NoRun(op) == TrackerRes(op, [raises |-> FALSE, frame |-> NoFrame], EmptyData, <<>>)

__init__(code, suffix, ALPHA_VANTAGE_AVAILABLE, has_api_key) ==
    /\ tracker' = NewTracker(code, suffix, ALPHA_VANTAGE_AVAILABLE, has_api_key)
    /\ trun' = NoRun("__init__")
    /\ UNCHANGED dbvars

run_analysis(outcome, current_price, info, failAt, news_outcome) ==
    LET hist_data == get_historical_data(outcome)
        r == GetComprehensiveData(tracker, stock_prices, hist_data, current_price,
                                  info, failAt, news_outcome)
    IN  /\ TotalRows + Len(hist_data.rows) <= DbCapacity
        /\ stock_prices' = r.table
        /\ trun' = TrackerRes("run_analysis", outcome, r.data, RunAnalysis(r.data))
        /\ UNCHANGED <<dividends, company_info, dbres, tracker>>

TrackerInit ==
    /\ tracker = NewTracker("AFI", "", FALSE, FALSE)
    /\ trun = NoRun("__init__")

TrackerNext ==
    \/ \E code \in Symbols, suffix \in {"", ".AX"}, a, k \in BOOLEAN :
          __init__(code, suffix, a, k)
    \/ \E outcome \in ProviderOutcomes, p \in CurrentPrices, c \in CompanyInfos,
          n \in NewsOutcomes(tracker.news_client) :
          \E failAt \in FailPoints(get_historical_data(outcome).rows) :
             run_analysis(outcome, p, c, failAt, n)

(***************************************************************************)
(* The indicator library, TechnicalAnalyzer (src/analytics).               *)
(* A float is NaN, an infinity or an exact rational n/d in lowest terms;   *)
(* arithmetic is that of numpy on float64 without rounding and without a   *)
(* negative zero (x / 0 has the sign of x).                                *)
(***************************************************************************)
NaN == [k |-> "nan", n |-> 0, d |-> 1]
Inf(sign) == [k |-> IF sign > 0 THEN "inf" ELSE "ninf", n |-> 0, d |-> 1]
Abs(i) == IF i < 0 THEN -i ELSE i

RECURSIVE Gcd(_, _)
Gcd(a, b) == IF b = 0 THEN a ELSE Gcd(b, a % b)

\* the rational n/d, d > 0, in lowest terms
Num(n, d) ==
    LET g == Gcd(Abs(n), d)
    IN  [k |-> "num", n |-> n \div g, d |-> d \div g]

Sgn(x) == CASE x.k = "inf" -> 1
            [] x.k = "ninf" -> -1
            [] OTHER -> IF x.n > 0 THEN 1 ELSE IF x.n < 0 THEN -1 ELSE 0

FNeg(x) == CASE x.k = "nan" -> NaN
             [] x.k = "num" -> Num(-x.n, x.d)
             [] OTHER -> Inf(-Sgn(x))

FAdd(a, b) ==
    CASE a.k = "nan" \/ b.k = "nan" -> NaN
      [] a.k = "num" /\ b.k = "num" ->
            LET g == Gcd(a.d, b.d)
            IN  Num(a.n * (b.d \div g) + b.n * (a.d \div g), (a.d \div g) * b.d)
      [] a.k = "num" -> b
      [] b.k = "num" -> a
      [] OTHER -> IF a.k = b.k THEN a ELSE NaN

FSub(a, b) == FAdd(a, FNeg(b))

FMul(a, b) ==
    CASE a.k = "nan" \/ b.k = "nan" -> NaN
      [] a.k = "num" /\ b.k = "num" ->
            LET g == Gcd(Abs(a.n), b.d)
                h == Gcd(Abs(b.n), a.d)
            IN  Num((a.n \div g) * (b.n \div h), (a.d \div h) * (b.d \div g))
      [] OTHER -> IF Sgn(a) * Sgn(b) = 0 THEN NaN ELSE Inf(Sgn(a) * Sgn(b))

FDiv(a, b) ==
    CASE a.k = "nan" \/ b.k = "nan" -> NaN
      [] b.k = "num" /\ b.n = 0 -> IF Sgn(a) = 0 THEN NaN ELSE Inf(Sgn(a))
      [] b.k = "num" /\ a.k = "num" ->
            FMul(a, Num(b.d * Sgn(b), b.n * Sgn(b)))
      [] b.k = "num" -> Inf(Sgn(a) * Sgn(b))
      [] a.k = "num" -> Num(0, 1)
      [] OTHER -> NaN

\* a < b; every comparison with NaN is False
FLt(a, b) ==
    CASE a.k = "nan" \/ b.k = "nan" -> FALSE
      [] a.k = "num" /\ b.k = "num" -> a.n * b.d < b.n * a.d
      [] OTHER -> (a.k = "ninf" /\ b.k # "ninf") \/ (b.k = "inf" /\ a.k # "inf")

FAbs(x) == IF Sgn(x) < 0 THEN FNeg(x) ELSE x


(***************************************************************************)
(* pandas Series operations; a Series is a sequence of floats.             *)
(***************************************************************************)
RECURSIVE FSum(_)
FSum(s) ==
    IF s = <<>> THEN Num(0, 1)
    ELSE IF Len(s) = 1 THEN s[1]
    ELSE LET half == Len(s) \div 2
         IN  FAdd(FSum(SubSeq(s, 1, half)), FSum(SubSeq(s, half + 1, Len(s))))

HasNaN(s) == \E i \in 1..Len(s) : s[i].k = "nan"

\* Series.shift(periods)
Shift(s, periods) ==
    [i \in 1..Len(s) |-> IF i <= periods THEN NaN ELSE s[i - periods]]

\* element-wise binary operation on aligned Series
Zip(a, b, Op(_, _)) == [i \in 1..Len(a) |-> Op(a[i], b[i])]

\* the trailing window of position i
Trail(s, i, window) == SubSeq(s, i - window + 1, i)

\* a rolling mean that takes min_periods=1
RollingMean_MinPeriods1(s, window) ==
    [i \in 1..Len(s) |->
        LET w == SubSeq(s, IF i > window THEN i - window + 1 ELSE 1, i) IN
        IF HasNaN(w) THEN NaN ELSE FDiv(FSum(w), Num(Len(w), 1))]

\* Series.rolling(window).mean(): min_periods defaults to window, so a
\* position with fewer than window valid observations is NaN
RollingMean(s, window) ==
    [i \in 1..Len(s) |->
        IF i < window \/ HasNaN(Trail(s, i, window)) THEN NaN
        ELSE FDiv(FSum(Trail(s, i, window)), Num(window, 1))]

\* Series.rolling(window).max() / .min()
RollingExtreme(s, window, is_max) ==
    [i \in 1..Len(s) |->
        IF i < window \/ HasNaN(Trail(s, i, window)) THEN NaN
        ELSE LET w == Trail(s, i, window)
             IN  CHOOSE x \in Range(w) :
                    \A y \in Range(w) :
                       IF is_max THEN ~FLt(x, y) ELSE ~FLt(y, x)]

\* the square of Series.rolling(window).std(): the sample variance (ddof=1),
\* NaN for a window of one observation
RollingVar(s, window) ==
    [i \in 1..Len(s) |->
        IF i < window \/ HasNaN(Trail(s, i, window)) THEN NaN
        ELSE LET w  == Trail(s, i, window)
                 sq == FSum([j \in 1..window |-> FMul(w[j], w[j])])
                 su == FSum(w)
             IN  FDiv(FSub(FMul(Num(window, 1), sq), FMul(su, su)),
                      Num(window * (window - 1), 1))]

\* Series.ewm(span).mean(): adjust=True, min_periods=0, over a Series without
\* NaN: y[i] = sum_j w^j x[i-j] / sum_j w^j with w = (span-1)/(span+1)
RECURSIVE EwmSums(_, _, _)
EwmSums(s, i, w) ==
    IF i = 0 THEN [num |-> Num(0, 1), den |-> Num(0, 1)]
    ELSE LET p == EwmSums(s, i - 1, w)
         IN  [num |-> FAdd(s[i], FMul(w, p.num)),
              den |-> FAdd(Num(1, 1), FMul(w, p.den))]

EwmMean(s, span) ==
    [i \in 1..Len(s) |->
        LET p == EwmSums(s, i, Num(span - 1, span + 1)) IN FDiv(p.num, p.den)]

(***************************************************************************)
(* The indicators.  The inputs are Series without NaN over one index.      *)
(***************************************************************************)
Zero == Num(0, 1)
Hundred == Num(100, 1)

CalculateSma(prices, window) == RollingMean(prices, window)

CalculateEma(prices, window) == EwmMean(prices, window)

\* an RSI whose losses keep their sign
CalculateRsi_SignedLoss(prices, window) ==
    LET delta == Zip(prices, Shift(prices, 1), FSub)
        up    == [i \in 1..Len(delta) |->
                     IF FLt(Zero, delta[i]) THEN delta[i] ELSE Zero]
        down  == [i \in 1..Len(delta) |->
                     IF FLt(delta[i], Zero) THEN delta[i] ELSE Zero]
        rs    == Zip(RollingMean(up, window), RollingMean(down, window), FDiv)
    IN  [i \in 1..Len(rs) |->
            FSub(Hundred, FDiv(Hundred, FAdd(Num(1, 1), rs[i])))]

CalculateRsi(prices, window) ==
    LET delta == Zip(prices, Shift(prices, 1), FSub)
        up    == [i \in 1..Len(delta) |->
                     IF FLt(Zero, delta[i]) THEN delta[i] ELSE Zero]
        down  == [i \in 1..Len(delta) |->
                     FNeg(IF FLt(delta[i], Zero) THEN delta[i] ELSE Zero)]
        gain  == RollingMean(up, window)
        loss  == RollingMean(down, window)
        rs    == Zip(gain, loss, FDiv)
    IN  [i \in 1..Len(rs) |->
            FSub(Hundred, FDiv(Hundred, FAdd(Num(1, 1), rs[i])))]

\* the dict of calculate_macd as <<macd, signal, histogram>>
CalculateMacd(prices, fast, slow, signal) ==
    LET macd_line   == Zip(CalculateEma(prices, fast), CalculateEma(prices, slow),
                           FSub)
        signal_line == CalculateEma(macd_line, signal)
    IN  <<macd_line, signal_line, Zip(macd_line, signal_line, FSub)>>

\* sma + mult * std, kept exact: std is the square root of the variance var
Band(sma, var, mult) ==
    IF sma.k = "nan" \/ var.k = "nan"
    THEN [k |-> "nan", mid |-> NaN, var |-> NaN, mult |-> 0]
    ELSE [k |-> "num", mid |-> sma, var |-> var, mult |-> mult]

\* the dict of calculate_bollinger_bands as <<middle, upper, lower>>
CalculateBollingerBands(prices, window, num_std) ==
    LET sma == CalculateSma(prices, window)
        var == RollingVar(prices, window)
    IN  <<sma,
          [i \in 1..Len(sma) |-> Band(sma[i], var[i], num_std)],
          [i \in 1..Len(sma) |-> Band(sma[i], var[i], -num_std)]>>

\* the dict of calculate_stochastic as <<k_percent, d_percent>>
CalculateStochastic(high, low, close, k_window, d_window) ==
    LET lowest_low   == RollingExtreme(low, k_window, FALSE)
        highest_high == RollingExtreme(high, k_window, TRUE)
        k_percent    == [i \in 1..Len(close) |->
                            FMul(Hundred,
                                 FDiv(FSub(close[i], lowest_low[i]),
                                      FSub(highest_high[i], lowest_low[i])))]
    IN  <<k_percent, RollingMean(k_percent, d_window)>>

\* DataFrame.max(axis=1): the largest of the values that are not NaN
RowMax(row) ==
    LET valid == {x \in row : x.k # "nan"}
    IN  IF valid = {} THEN NaN
        ELSE CHOOSE x \in valid : \A y \in valid : ~FLt(x, y)

CalculateAtr(high, low, close, window) ==
    LET prev       == Shift(close, 1)
        true_range == [i \in 1..Len(close) |->
                          RowMax({FSub(high[i], low[i]),
                                  FAbs(FSub(high[i], prev[i])),
                                  FAbs(FSub(low[i], prev[i]))})]
    IN  RollingMean(true_range, window)

CalculateWilliamsR(high, low, close, window) ==
    LET highest_high == RollingExtreme(high, window, TRUE)
        lowest_low   == RollingExtreme(low, window, FALSE)
    IN  [i \in 1..Len(close) |->
            FMul(Num(-100, 1),
                 FDiv(FSub(highest_high[i], close[i]),
                      FSub(highest_high[i], lowest_low[i])))]

\* a momentum that always looks one session back
CalculateMomentum_OneSession(prices, window) ==
    Zip(prices, Shift(prices, 1), FSub)

\* Series.diff(window)
CalculateMomentum(prices, window) == Zip(prices, Shift(prices, window), FSub)

CalculateRoc(prices, window) ==
    LET prev == Shift(prices, window)
    IN  [i \in 1..Len(prices) |->
            FMul(FDiv(FSub(prices[i], prev[i]), prev[i]), Hundred)]

(***************************************************************************)
(* One call of an indicator.  ind holds the inputs, drawn by the initial   *)
(* state, and after the call its name and its result: the returned Series, *)
(* or the Series of the returned dict in the order given above.            *)
(***************************************************************************)
\* session bars: low <= close <= high, one of them with a close of zero
IndBars == {[h |-> 1, l |-> 1, c |-> 1], [h |-> 2, l |-> 1, c |-> 2],
            [h |-> 2, l |-> 1, c |-> 1], [h |-> 1, l |-> 0, c |-> 0]}

BarSeries == {<<>>} \cup SeqsUpTo(IndBars, MaxLen)

Windows == 1..MaxWindow

\* the default of calculate_bollinger_bands
NumStd == 2

High(bars) == [i \in 1..Len(bars) |-> Num(bars[i].h, 1)]
Low(bars) == [i \in 1..Len(bars) |-> Num(bars[i].l, 1)]
Close(bars) == [i \in 1..Len(bars) |-> Num(bars[i].c, 1)]

Called(op, out) == ind.op = "input" /\ ind' = [ind EXCEPT !.op = op, !.out = out]

calculate_sma ==
    Called("calculate_sma", <<CalculateSma(Close(ind.bars), ind.params[1])>>)

calculate_ema ==
    Called("calculate_ema", <<CalculateEma(Close(ind.bars), ind.params[1])>>)

calculate_rsi ==
    Called("calculate_rsi", <<CalculateRsi(Close(ind.bars), ind.params[1])>>)

calculate_macd ==
    Called("calculate_macd",
           CalculateMacd(Close(ind.bars), ind.params[1], ind.params[2],
                         ind.params[3]))

calculate_bollinger_bands ==
    Called("calculate_bollinger_bands",
           CalculateBollingerBands(Close(ind.bars), ind.params[1], NumStd))

calculate_stochastic ==
    Called("calculate_stochastic",
           CalculateStochastic(High(ind.bars), Low(ind.bars), Close(ind.bars),
                               ind.params[1], ind.params[2]))

calculate_atr ==
    Called("calculate_atr",
           <<CalculateAtr(High(ind.bars), Low(ind.bars), Close(ind.bars),
                          ind.params[1])>>)

calculate_williams_r ==
    Called("calculate_williams_r",
           <<CalculateWilliamsR(High(ind.bars), Low(ind.bars), Close(ind.bars),
                                ind.params[1])>>)

calculate_momentum ==
    Called("calculate_momentum",
           <<CalculateMomentum(Close(ind.bars), ind.params[1])>>)

calculate_roc ==
    Called("calculate_roc", <<CalculateRoc(Close(ind.bars), ind.params[1])>>)

IndInputs(bars, params) ==
    [op |-> "input", bars |-> bars, params |-> params, out |-> <<>>]

\* no indicator call is under way
IndIdle == ind = IndInputs(<<>>, <<1, 1, 1>>)

\* the inputs of the call: the bars and the window parameters
IndInit ==
    ind \in {IndInputs(bars, params) :
                bars \in BarSeries, params \in Windows \X Windows \X Windows}

IndNext ==
    \/ calculate_sma
    \/ calculate_ema
    \/ calculate_rsi
    \/ calculate_macd
    \/ calculate_bollinger_bands
    \/ calculate_stochastic
    \/ calculate_atr
    \/ calculate_williams_r
    \/ calculate_momentum
    \/ calculate_roc

(***************************************************************************)
(* TechnicalAnalyzer.detect_patterns.  A frame is a sequence of bars with  *)
(* the columns Open, High, Low and Close; the timestamp of a bar (its      *)
(* index label) is its position, counted from 1.                           *)
(***************************************************************************)
\* len(df) < 50: nothing is looked for
PatternMinBars == 50
\* the windows of SMA_50 and SMA_200
ShortWindow == 50
LongWindow == 200
\* range(1, min(len(df_copy), 100))
ScanLimit == 100

Min(a, b) == IF a < b THEN a ELSE b

\* the timestamps of S in the order the loop appends them
Appended(S) ==
    [k \in 1..Cardinality(S) |->
        CHOOSE x \in S : Cardinality({y \in S : y < x}) = k - 1]

\* iloc positions 1 .. min(len, 100) - 1, as timestamps
ScannedBars(df, limit) == 2..Min(Len(df), limit)

DetectPatternsScan(df, limit) ==
    LET close   == [i \in 1..Len(df) |-> Num(df[i].c, 1)]
        sma_50  == CalculateSma(close, ShortWindow)
        sma_200 == CalculateSma(close, LongWindow)
        body(i) == Abs(df[i].c - df[i].o)
        upper(i) == df[i].h - (IF df[i].o > df[i].c THEN df[i].o ELSE df[i].c)
        lower(i) == (IF df[i].o < df[i].c THEN df[i].o ELSE df[i].c) - df[i].l
        \* x < body * 0.1, in tenths
        defined(i) == /\ sma_50[i].k # "nan" /\ sma_200[i].k # "nan"
                      /\ sma_50[i - 1].k # "nan" /\ sma_200[i - 1].k # "nan"
        scan == ScannedBars(df, limit)
    IN  [bullish_engulfing |-> <<>>,
         bearish_engulfing |-> <<>>,
         hammer |-> Appended({i \in scan : /\ lower(i) > body(i) * 2
                                           /\ upper(i) * 10 < body(i)}),
         shooting_star |-> Appended({i \in scan : /\ upper(i) > body(i) * 2
                                                  /\ lower(i) * 10 < body(i)}),
         doji |-> Appended({i \in scan : body(i) * 10 < df[i].h - df[i].l}),
         golden_cross |->
             Appended({i \in scan : /\ defined(i)
                                    /\ ~FLt(sma_200[i - 1], sma_50[i - 1])
                                    /\ FLt(sma_200[i], sma_50[i])}),
         death_cross |->
             Appended({i \in scan : /\ defined(i)
                                    /\ ~FLt(sma_50[i - 1], sma_200[i - 1])
                                    /\ FLt(sma_50[i], sma_200[i])})]

EmptyPatterns ==
    [bullish_engulfing |-> <<>>, bearish_engulfing |-> <<>>, hammer |-> <<>>,
     shooting_star |-> <<>>, doji |-> <<>>, golden_cross |-> <<>>,
     death_cross |-> <<>>]

DetectPatterns(df) ==
    IF Len(df) < PatternMinBars THEN EmptyPatterns
    ELSE DetectPatternsScan(df, ScanLimit)

\* the shape of a session around its close: Open, High and Low as offsets
BarShapes == {[o |-> 0, h |-> 0, l |-> 0],        \* no range at all
              [o |-> -10, h |-> 0, l |-> -40],    \* long lower shadow
              [o |-> 10, h |-> 40, l |-> 0],      \* long upper shadow
              [o |-> 0, h |-> 10, l |-> -10]}     \* no body

Ohlc(close, shape) ==
    [o |-> close + shape.o, h |-> close + shape.h, l |-> close + shape.l,
     c |-> close]

\* a frame of n bars that closes at from up to bar turn and at to afterwards
StepFrame(n, turn, from, to, shape) ==
    [i \in 1..n |-> Ohlc(IF i <= turn THEN from ELSE to, shape)]

FrameLengths == {0, 49, 50, 100, 201, 202}
Turns == {40, 99, 200, 201}
CloseLevels == {100, 200}

PatternFrames ==
    {StepFrame(n, turn, from, to, shape) :
        n \in FrameLengths, turn \in Turns, from \in CloseLevels,
        to \in CloseLevels, shape \in BarShapes}

detect_patterns ==
    /\ ind.op = "input"
    /\ ind' = [ind EXCEPT !.op = "detect_patterns",
                          !.out = DetectPatterns(ind.bars)]

(***************************************************************************)
(* Return metrics: FinancialAnalyzer.calculate_returns and the tracker's   *)
(* perform_financial_analysis.  Prices are positive and free of NaN.  A    *)
(* dict is a function on its keys.  A square root or a power is kept as    *)
(* the record of its arguments; a standard deviation is positive exactly   *)
(* when its variance is.                                                   *)
(***************************************************************************)
MaxPrices == 3
TradingDays == 252

\* prices.pct_change().dropna()
PctChange(prices) ==
    [i \in 1..(Len(prices) - 1) |->
        FSub(FDiv(prices[i + 1], prices[i]), Num(1, 1))]

\* the square of Series.std() (ddof=1): NaN for fewer than two observations
SeriesVar(s) == IF Len(s) < 2 THEN NaN ELSE RollingVar(s, Len(s))[Len(s)]

SeriesMean(s) == IF s = <<>> THEN NaN ELSE FDiv(FSum(s), Num(Len(s), 1))

\* sqrt(x), NaN for NaN
Sqrt(x) == IF x.k = "nan" THEN NaN ELSE [k |-> "sqrt", of |-> x]

\* volatility > 0
Positive(volatility) ==
    volatility.k = "sqrt" /\ FLt(Num(0, 1), volatility.of)

\* ((1 + daily_returns).cumprod(): the price relative to the first price;
\* the drawdown against the running maximum, its minimum times 100
MaxDrawdown(prices) ==
    LET cumulative == [i \in 1..(Len(prices) - 1) |->
                          FDiv(prices[i + 1], prices[1])]
        running_max == [i \in 1..Len(cumulative) |->
                           RowMax({cumulative[j] : j \in 1..i})]
        drawdown == [i \in 1..Len(cumulative) |->
                        FDiv(FSub(cumulative[i], running_max[i]),
                             running_max[i])]
    IN  FMul(CHOOSE x \in Range(drawdown) :
                 \A y \in Range(drawdown) : ~FLt(y, x),
             Num(100, 1))

CalculateReturns(prices) ==
    IF Len(prices) < 2 THEN <<>>
    ELSE LET daily_returns == PctChange(prices)
             growth == FDiv(prices[Len(prices)], prices[1])
             trading_days == Len(daily_returns)
             annualized_return ==
                 [k |-> "annualized", growth |-> growth,
                  years |-> Num(trading_days, TradingDays)]
             variance == SeriesVar(daily_returns)
             volatility ==
                 Sqrt(FMul(variance, Num(TradingDays * 100 * 100, 1)))
             sharpe_ratio ==
                 IF Positive(volatility)
                 THEN [k |-> "quotient", excess |-> annualized_return,
                       by |-> volatility]
                 ELSE Num(0, 1)
         IN  [total_return |-> FMul(FSub(growth, Num(1, 1)), Num(100, 1)),
              annualized_return |-> annualized_return,
              volatility |-> volatility,
              sharpe_ratio |-> sharpe_ratio,
              max_drawdown |-> MaxDrawdown(prices),
              avg_daily_return |->
                  FMul(SeriesMean(daily_returns), Num(100, 1)),
              std_daily_return |->
                  Sqrt(FMul(variance, Num(100 * 100, 1)))]

\* analysis['financial'] of a frame with these closes
FinancialOf(close) ==
    LET returns == PctChange(close)
        total_return == FSub(FDiv(close[Len(close)], close[1]), Num(1, 1))
        annualized_return ==
            FMul(total_return, Num(TradingDays, Len(returns)))
        volatility == Sqrt(FMul(SeriesVar(returns), Num(TradingDays, 1)))
        metrics == [total_return |-> total_return,
                    annualized_return |-> annualized_return,
                    volatility |-> volatility]
    IN  IF returns = <<>> THEN <<>>
        ELSE IF Positive(volatility)
        THEN metrics @@
             [sharpe_ratio |->
                 [k |-> "quotient", excess |-> annualized_return,
                  by |-> volatility]]
        ELSE metrics

\* data holds 'historical' exactly when the provider delivered a frame
\* with at least one row
PerformFinancialAnalysis(close) ==
    IF close = <<>> THEN <<>> ELSE [financial |-> FinancialOf(close)]

PriceLevels == {1, 2, 4}

PriceSeries ==
    {<<>>} \cup {[i \in 1..Len(s) |-> Num(s[i], 1)] :
                    s \in SeqsUpTo(PriceLevels, MaxPrices)}

calculate_returns ==
    /\ ind.op = "input"
    /\ ind' = [ind EXCEPT !.op = "calculate_returns",
                          !.out = CalculateReturns(ind.bars)]

perform_financial_analysis ==
    /\ ind.op = "input"
    /\ ind' = [ind EXCEPT !.op = "perform_financial_analysis",
                          !.out = PerformFinancialAnalysis(ind.bars)]

ReturnsNext == calculate_returns \/ perform_financial_analysis

(***************************************************************************)
(* AsyncYahooFinanceClient.get_multiple_symbols_data.  One task per        *)
(* requested symbol gathers four provider calls; every call runs in the    *)
(* thread pool of the client, which starts work in the order of submission *)
(* on at most max_workers threads.  A call is numbered by its place in     *)
(* that order: the calls of the task at position t are 4(t-1)+1 .. 4t.     *)
(***************************************************************************)
MaxSymbols == 2
\* ThreadPoolExecutor(max_workers=5)
MaxWorkers == 5

\* the keys of the dict of _get_symbol_data, in the order of the gather
DataKinds ==
    <<"historical_data", "company_info", "current_price", "dividend_data">>

\* what the provider delivers for a symbol
Payload(symbol, kind) == [symbol |-> symbol, kind |-> kind]

CallOf(t, k) == Len(DataKinds) * (t - 1) + k

Finished(status) == status \in {"ok", "raised"}

\* the threads of the pool take the queued calls in order
StartQueued(calls) ==
    [q \in DOMAIN calls |->
        IF calls[q] = "queued" /\
           Cardinality({p \in 1..(q - 1) : ~Finished(calls[p])}) < MaxWorkers
        THEN "running" ELSE calls[q]]

\* get_historical_data .. get_dividend_history: the result of the executor,
\* None (Nothing) when the call raised
CallResult(symbol, k, status) ==
    IF status = "ok" THEN Some(Payload(symbol, DataKinds[k])) ELSE Nothing

\* the dict a task builds from the results of a gather that takes the calls
\* of the task at position 1
SymbolData_FirstTask(symbols, calls, t) ==
    [k \in 1..Len(DataKinds) |-> CallResult(symbols[1], k, calls[CallOf(1, k)])]

\* the dict _get_symbol_data returns, as the values of DataKinds in order
SymbolData(symbols, calls, t) ==
    [k \in 1..Len(DataKinds) |-> CallResult(symbols[t], k, calls[CallOf(t, k)])]

FetchIdle ==
    fetch = [pc |-> "idle", symbols |-> <<>>, calls |-> <<>>, tasks |-> <<>>,
             pos |-> 1, results |-> <<>>]

\* create_task per symbol; the tasks run up to their gather and every call
\* is handed to the executor
get_multiple_symbols_data(symbols) ==
    /\ fetch.pc = "idle"
    /\ fetch' = [pc |-> "awaiting", symbols |-> symbols,
                 calls |-> StartQueued([q \in 1..(Len(DataKinds) * Len(symbols))
                                           |-> "queued"]),
                 tasks |-> [t \in 1..Len(symbols) |-> Nothing],
                 pos |-> 1, results |-> <<>>]

\* a provider call returns or raises in its thread; the thread takes the
\* next queued call
_sync_call_ends(q, status) ==
    /\ fetch.pc = "awaiting"
    /\ q \in DOMAIN fetch.calls
    /\ fetch.calls[q] = "running"
    /\ fetch' = [fetch EXCEPT
                    !.calls = StartQueued([fetch.calls EXCEPT ![q] = status])]

\* the gather of a task has its four results: the task returns its dict
_get_symbol_data(t) ==
    /\ fetch.pc = "awaiting"
    /\ t \in DOMAIN fetch.tasks
    /\ fetch.tasks[t] = Nothing
    /\ \A k \in 1..Len(DataKinds) : Finished(fetch.calls[CallOf(t, k)])
    /\ fetch' = [fetch EXCEPT
                    !.tasks[t] = Some(SymbolData(fetch.symbols, fetch.calls, t))]

\* results[symbol] = await task, for the tasks in the order of the request
await_task ==
    /\ fetch.pc = "awaiting"
    /\ fetch.pos <= Len(fetch.symbols)
    /\ fetch.tasks[fetch.pos] # Nothing
    /\ fetch' = [fetch EXCEPT
                    !.results = [s \in DOMAIN fetch.results
                                         \cup {fetch.symbols[fetch.pos]} |->
                                    IF s = fetch.symbols[fetch.pos]
                                    THEN fetch.tasks[fetch.pos][1]
                                    ELSE fetch.results[s]],
                    !.pos = fetch.pos + 1]

return_results ==
    /\ fetch.pc = "awaiting"
    /\ fetch.pos > Len(fetch.symbols)
    /\ fetch' = [fetch EXCEPT !.pc = "returned"]

FetchRequests == {<<>>} \cup SeqsUpTo(Symbols, MaxSymbols)

FetchNext ==
    \/ \E symbols \in FetchRequests : get_multiple_symbols_data(symbols)
    \/ \E q \in 1..(Len(DataKinds) * MaxSymbols), status \in {"ok", "raised"} :
           _sync_call_ends(q, status)
    \/ \E t \in 1..MaxSymbols : _get_symbol_data(t)
    \/ await_task
    \/ return_results


(***************************************************************************)
(* CachedYahooFinanceClient.clear_cache and CacheService.clear_pattern.    *)
(* Redis matches a key against a glob pattern character by character, so   *)
(* the texts involved are spelled out as sequences of characters.          *)
(***************************************************************************)
\* the characters of the keys of SymbolCalls
KeyTexts ==
    {PriceMethod \o <<":">> \o s : s \in ClearSymbols \cup {<<>>}}

\* fnmatch of Redis KEYS: * is any run of characters, ? any one character
RECURSIVE GlobMatch(_, _)
GlobMatch(pattern, text) ==
    IF pattern = <<>> THEN text = <<>>
    ELSE IF pattern[1] = "*"
    THEN \/ GlobMatch(Tail(pattern), text)
         \/ text # <<>> /\ GlobMatch(pattern, Tail(text))
    ELSE /\ text # <<>>
         /\ pattern[1] \in {"?", text[1]}
         /\ GlobMatch(Tail(pattern), Tail(text))

\* self.client.keys(pattern): the live keys the pattern matches
RedisKeys(store, pattern, t) ==
    {k \in DOMAIN store :
        /\ store[k].expires > t
        /\ \E text \in KeyTexts : Spell(text) = k /\ GlobMatch(pattern, text)}

\* CacheService.clear_pattern: the store left and the number returned
ClearPattern(conn, store, pattern, raises, t) ==
    LET keys == RedisKeys(store, pattern, t)
    IN  IF ~conn \/ raises \/ keys = {}
        THEN [store |-> store, ret |-> 0]
        ELSE [store |-> [k \in DOMAIN store \ keys |-> store[k]],
              ret |-> Cardinality(keys)]

\* pattern = f"*{symbol}*" if symbol else "*"
ClearCachePattern(symbol) ==
    IF symbol # <<>> THEN <<"*">> \o symbol \o <<"*">> ELSE <<"*">>

\* clear_cache(symbol) of a client with a cache service; symbol <<>> is
\* clear_cache().  The register keeps the pattern as key and the number
\* returned as calls.
clear_cache(symbol, raises) ==
    LET pattern == ClearCachePattern(symbol)
        r == ClearPattern(client, redis, pattern, raises, now)
    IN  /\ redis' = r.store
        /\ cres' = CacheRes("clear_cache", Spell(pattern), Nothing, Nothing,
                            FALSE, client /\ raises, r.ret)
        /\ UNCHANGED <<client, async_client, cache_table, now, writes, dbvars>>

ClearNext ==
    \/ \E o \in {"ok", "ping", "url"} : connect(FALSE, o)
    \/ \E c \in SymbolCalls, v \in {Nothing} \cup {Some(x) : x \in Scalars} :
          \E g, r \in BOOLEAN : cached(FALSE, TRUE, c, v, g, r)
    \/ \E s \in ClearSymbols \cup {<<>>}, r \in BOOLEAN : clear_cache(s, r)


(***************************************************************************)
(* SMA, RSI and momentum over longer close series.                         *)
(***************************************************************************)
MaxPoints == 5

ClosePrices == {10, 11, 12}

\* a frame of sessions without a range around the given closes
CloseBars(closes) ==
    [i \in 1..Len(closes) |-> [h |-> closes[i], l |-> closes[i], c |-> closes[i]]]

RollingNext == calculate_sma \/ calculate_rsi \/ calculate_momentum


(***************************************************************************)
(* One call of CacheService._generate_key.  ind holds the arguments, drawn *)
(* by the initial state, and after the call the key returned.              *)
(***************************************************************************)
RECURSIVE Repeat(_, _)
Repeat(text, n) ==
    IF n = 0 THEN ""
    ELSE LET half == Repeat(text, n \div 2)
         IN  IF n % 2 = 0 THEN half \o half ELSE half \o half \o text

KeyPrefixes == {"get_news", "get_historical_data"}

\* positional arguments as str() gives them: none, an empty string, a
\* symbol, a symbol and a period, one string that holds a colon; with the
\* prefix get_news the long ones make a plain form of 199, 200 and 201
\* characters
KeyArgs == {<<>>, <<"">>, <<"AFI">>, <<"AFI", "1y">>, <<"AFI:1y">>,
            <<Repeat("x", 190)>>, <<Repeat("x", 191)>>, <<Repeat("x", 192)>>}

\* keyword arguments in the order of the call
KeyKwargs ==
    {<<>>, <<<<"period", "1y">>>>}
    \cup {<<<<"symbol", s>>>> : s \in Symbols}
    \cup {<<<<"symbol", s>>, <<"period", "1y">>>> : s \in Symbols}
    \cup {<<<<"period", "1y">>, <<"symbol", s>>>> : s \in Symbols}

generate_key ==
    /\ ind.op = "input"
    /\ ind' = [ind EXCEPT
                  !.op = "_generate_key",
                  !.out = _generate_key(ind.params.prefix, ind.params.args,
                                        ind.params.kwargs)]


(***************************************************************************)
(* CacheService.set over every category and kind of ttl argument.          *)
(***************************************************************************)
\* the keys of ttl_settings and a category it does not hold
CacheTypes ==
    {"stock_price_current", "stock_price_historical", "company_info",
     "technical_indicators", "news", "dividends", "default", "other"}

\* ttl: not passed, zero, negative, a number of seconds
TtlValues == {Nothing, Some(0), Some(-1), Some(7)}

TtlNext ==
    \/ \E o \in {"ok", "ping", "url"} : connect(FALSE, o)
    \/ \E k \in CacheKeys, v \in Scalars, t \in TtlValues, c \in CacheTypes,
          r \in BOOLEAN : set(k, v, t, c, r)
    \/ \E e \in Expiries, d \in {-1, 0} : Tick(e + d)


(***************************************************************************)
(* MonitoringService: start_monitoring, stop_monitoring and the threads    *)
(* that run _monitoring_loop.  One caller thread makes the calls; a loop   *)
(* thread is at the test of its while ("check"), in the body ("work"), in  *)
(* time.sleep(interval) ("sleep") or has returned ("done").                *)
(***************************************************************************)
\* threads that start_monitoring may create
MaxThreads == 3

LoopThreads == 1..MaxThreads

\* threads inside _monitoring_loop
Running(loops) == {t \in DOMAIN loops : loops[t] \in {"check", "work", "sleep"}}

MonitorIdle ==
    monitor = [active |-> FALSE,      \* _monitoring_active
               thread |-> 0,          \* _monitoring_thread, 0 for None
               loops  |-> <<>>,       \* the threads created so far
               caller |-> "idle"]     \* "join": inside stop_monitoring

\* start_monitoring: a no-op while the flag is set, else set it and start
\* a thread on _monitoring_loop
start_monitoring ==
    /\ monitor.caller = "idle"
    /\ IF monitor.active
       THEN monitor' = monitor
       ELSE /\ Len(monitor.loops) < MaxThreads
            /\ monitor' = [monitor EXCEPT
                              !.active = TRUE,
                              !.thread = Len(monitor.loops) + 1,
                              !.loops = Append(monitor.loops, "check")]

\* stop_monitoring up to the join: clear the flag
stop_monitoring ==
    /\ monitor.caller = "idle"
    /\ monitor' = [monitor EXCEPT
                      !.active = FALSE,
                      !.caller = IF monitor.thread # 0 THEN "join" ELSE "idle"]

\* self._monitoring_thread.join(timeout=5) returns: the thread has ended,
\* or the five seconds have passed with the thread still in its loop
join_returns(timed_out) ==
    /\ monitor.caller = "join"
    /\ IF timed_out
       THEN monitor.loops[monitor.thread] # "done"
       ELSE monitor.loops[monitor.thread] = "done"
    /\ monitor' = [monitor EXCEPT !.caller = "idle"]

\* while self._monitoring_active
loop_check(t) ==
    /\ t \in DOMAIN monitor.loops
    /\ monitor.loops[t] = "check"
    /\ monitor' = [monitor EXCEPT
                      !.loops[t] = IF monitor.active THEN "work" ELSE "done"]

\* the body of the loop up to time.sleep(interval), an exception included
loop_work(t) ==
    /\ t \in DOMAIN monitor.loops
    /\ monitor.loops[t] = "work"
    /\ monitor' = [monitor EXCEPT !.loops[t] = "sleep"]

\* time.sleep(interval) returns
loop_wake(t) ==
    /\ t \in DOMAIN monitor.loops
    /\ monitor.loops[t] = "sleep"
    /\ monitor' = [monitor EXCEPT !.loops[t] = "check"]

MonitorNext ==
    \/ start_monitoring
    \/ stop_monitoring
    \/ \E timed_out \in BOOLEAN : join_returns(timed_out)
    \/ \E t \in LoopThreads : loop_check(t)
    \/ \E t \in LoopThreads : loop_work(t)
    \/ \E t \in LoopThreads : loop_wake(t)


(***************************************************************************)
(* AsyncAlphaVantageClient: every request goes through                     *)
(* _make_async_request, which sleeps rate_limit seconds and then sends.    *)
(* A request is asleep until its wake time ("sleep"), sent and waiting for *)
(* the response ("sent") or returned ("done").  The clock counts seconds.  *)
(***************************************************************************)
\* super().__init__(api_key, "https://www.alphavantage.co", rate_limit=12.0)
RateLimit == 12
MaxRequests == 3
MaxClock == 26

AlphaIdle ==
    alpha = [now      |-> 0,
             requests |-> <<>>,      \* the calls of _make_async_request
             sent     |-> <<>>]      \* the times at which a request was sent

\* the calls started now: each begins with await asyncio.sleep(rate_limit)
Launch(requests, n, t) ==
    requests \o [i \in 1..n |-> [pc |-> "sleep", wake |-> t + RateLimit]]

InFlight(requests) == {i \in DOMAIN requests : requests[i].pc # "done"}

\* one awaited call of get_current_price, get_daily_data, get_company_overview
\* or get_technical_indicator: the caller has no other request in flight
_make_async_request ==
    /\ InFlight(alpha.requests) = {}
    /\ Len(alpha.requests) < MaxRequests
    /\ alpha' = [alpha EXCEPT !.requests = Launch(alpha.requests, 1, alpha.now)]

\* get_multiple_indicators: one task per indicator, all created before the
\* first is awaited
get_multiple_indicators(indicators) ==
    /\ InFlight(alpha.requests) = {}
    /\ Len(alpha.requests) + indicators <= MaxRequests
    /\ alpha' = [alpha EXCEPT
                    !.requests = Launch(alpha.requests, indicators, alpha.now)]

\* the sleep of a request is over: self.session.get(...) sends it
send_request(i) ==
    /\ i \in DOMAIN alpha.requests
    /\ alpha.requests[i].pc = "sleep"
    /\ alpha.requests[i].wake <= alpha.now
    /\ alpha' = [alpha EXCEPT !.requests[i].pc = "sent",
                              !.sent = Append(alpha.sent, alpha.now)]

\* the response or an exception arrives: data or None is returned
request_returns(i) ==
    /\ i \in DOMAIN alpha.requests
    /\ alpha.requests[i].pc = "sent"
    /\ alpha' = [alpha EXCEPT !.requests[i].pc = "done"]

\* a second passes; a request whose sleep is over is sent first
AlphaTick ==
    /\ alpha.now < MaxClock
    /\ \A i \in DOMAIN alpha.requests :
           alpha.requests[i].pc = "sleep" => alpha.now < alpha.requests[i].wake
    /\ alpha' = [alpha EXCEPT !.now = alpha.now + 1]

AlphaNext ==
    \/ _make_async_request
    \/ \E n \in 1..MaxRequests : get_multiple_indicators(n)
    \/ \E i \in 1..MaxRequests : send_request(i)
    \/ \E i \in 1..MaxRequests : request_returns(i)
    \/ AlphaTick


(***************************************************************************)
(* apis/base_client.py: BaseAPIClient, used from one thread.  The clock    *)
(* counts tenths of a second; rate_limit is 0.1 s for the Yahoo client,    *)
(* 1.0 s for the news client and 12.0 s for the Alpha Vantage client.      *)
(***************************************************************************)
RateLimits == {1, 10, 120}

\* time.time() when the client is constructed: long after the epoch, so
\* that the first request finds last_request_time = 0 far in the past
ClockStart == 1000
\* requests made through one client
MaxSends == 3
\* how far, at most, a sleep overruns and the clock moves between two reads
MaxLate == 1
\* the clock passes between the calls for rate_limit and Slack steps more
Slack == 3

\* _rate_limit_check without the sleep
RateLimitCheck_NoSleep(last_request_time, current_time, rate_limit, late) ==
    current_time + late

\* _rate_limit_check: the value of time.time() when it returns, which it
\* stores in last_request_time; time.sleep returns after the time asked for
\* or later
RateLimitCheck(last_request_time, current_time, rate_limit, late) ==
    LET time_since_last == current_time - last_request_time
    IN  IF time_since_last < rate_limit
        THEN current_time + (rate_limit - time_since_last) + late
        ELSE current_time + late

BaseClient(rate_limit, t) ==
    [rate_limit        |-> rate_limit,
     last_request_time |-> 0,
     now               |-> t,
     sent              |-> <<>>]     \* the requests: called, sent at, failed

BaseIdle == base = BaseClient(10, ClockStart)

\* BaseAPIClient.__init__ of a subclass
new_client(rate_limit) == base' = BaseClient(rate_limit, ClockStart)

\* one call of _make_request: the rate limit check, then session.get sends
\* the request; it returns the JSON or raises RequestException
_make_request(late, fails) ==
    /\ Len(base.sent) < MaxSends
    /\ LET t == RateLimitCheck(base.last_request_time, base.now,
                               base.rate_limit, late)
       IN  base' = [base EXCEPT
                       !.last_request_time = t,
                       !.now = t,
                       !.sent = Append(@, [called |-> base.now, at |-> t,
                                           failed |-> fails])]

\* the clock is watched in steps of a tenth of the interval, and of a
\* tenth of a second at least
Step(rate_limit) == IF rate_limit < 10 THEN 1 ELSE rate_limit \div 10

\* time passes between two calls
BaseTick ==
    /\ base.now < ClockStart + base.rate_limit + Slack * Step(base.rate_limit)
    /\ base' = [base EXCEPT !.now = @ + Step(base.rate_limit)]

BaseNext ==
    \/ \E r \in RateLimits : new_client(r)
    \/ \E late \in 0..MaxLate, fails \in BOOLEAN : _make_request(late, fails)
    \/ BaseTick


(***************************************************************************)
(* DatabaseManager.add_portfolio_holding.  The holding is added and        *)
(* committed, then the 'buy' transaction is added and committed; failAt    *)
(* names the commit that raises SQLAlchemyError (0: none).  The rollback   *)
(* of the handler undoes only what was not yet committed.                  *)
(***************************************************************************)
MaxHoldings == 2

Shares == {1, 2}
PurchasePrices == {3, 5}
Fees == {0, 1}

\* the Portfolio row: the id is the autoincrement key
PortfolioRow(id, symbol, shares, purchase_price, purchase_date, fees) ==
    [id |-> id, symbol |-> symbol, shares |-> shares,
     purchase_price |-> purchase_price, purchase_date |-> purchase_date,
     purchase_fees |-> fees, is_active |-> TRUE]

\* the Transaction row of a holding
TransactionRow(id, holding) ==
    [id |-> id, portfolio_id |-> holding.id, transaction_type |-> "buy",
     shares |-> holding.shares, price |-> holding.purchase_price,
     amount |-> holding.shares * holding.purchase_price + holding.purchase_fees,
     fees |-> holding.purchase_fees,
     transaction_date |-> holding.purchase_date]

DbAddPortfolioHolding(holdings, txns, symbol, shares, purchase_price, purchase_date, fees, failAt) ==
    LET holding     == PortfolioRow(Len(holdings) + 1, symbol, shares,
                                    purchase_price, purchase_date, fees)
        transaction == TransactionRow(Len(txns) + 1, holding)
    IN  IF failAt = 1
        THEN [portfolio |-> holdings, transactions |-> txns, ret |-> FALSE]
        ELSE IF failAt = 2
        THEN [portfolio |-> Append(holdings, holding), transactions |-> txns,
              ret |-> FALSE]
        ELSE [portfolio |-> Append(holdings, holding),
              transactions |-> Append(txns, transaction), ret |-> TRUE]

PortfolioInit ==
    /\ portfolio = <<>>
    /\ transactions = <<>>
    /\ pfres = [op |-> "", holding |-> PortfolioRow(0, "", 0, 0, 0, 0),
                ret |-> FALSE]

add_portfolio_holding(symbol, shares, purchase_price, purchase_date, fees, failAt) ==
    LET r == DbAddPortfolioHolding(portfolio, transactions, symbol, shares,
                                   purchase_price, purchase_date, fees, failAt)
    IN  /\ Len(portfolio) < MaxHoldings
        /\ portfolio' = r.portfolio
        /\ transactions' = r.transactions
        /\ pfres' = [op |-> "add_portfolio_holding",
                     holding |-> PortfolioRow(Len(portfolio) + 1, symbol, shares,
                                              purchase_price, purchase_date, fees),
                     ret |-> r.ret]

PortfolioNext ==
    \E s \in Symbols, n \in Shares, p \in PurchasePrices, d \in Days,
       f \in Fees, failAt \in 0..2 :
        add_portfolio_holding(s, n, p, d, f, failAt)


(***************************************************************************)
(* monitoring/monitoring_service.py: AlertManager, called from one thread. *)
(* An alert is its id, level, acknowledged flag and timestamp; the         *)
(* timestamp is the number of the create_alert call that made it.          *)
(* max_alerts, 1000 by default, is any limit from 1 to MaxAlerts.          *)
(***************************************************************************)
MaxAlerts == 2
\* create_alert calls on one manager
MaxCreated == 4

AlertIds == {"health_check_1", "high_cpu_1"}
AlertLevels == {"warning", "critical"}

Alert(id, level, timestamp) ==
    [id |-> id, level |-> level, acknowledged |-> FALSE, timestamp |-> timestamp]

\* the new alert is put behind the others and the first max_alerts are kept
CreateAlert_Appends(alerts, alert, max_alerts) ==
    LET all == Append(alerts, alert)
    IN  IF Len(all) > max_alerts THEN SubSeq(all, 1, max_alerts) ELSE all

\* self.alerts.insert(0, alert), then the trim to max_alerts
CreateAlert(alerts, alert, max_alerts) ==
    LET all == <<alert>> \o alerts
    IN  IF Len(all) > max_alerts THEN SubSeq(all, 1, max_alerts) ELSE all

\* the index of the first alert with the id, 0 when there is none
FirstWithId(alerts, alert_id) ==
    IF \E i \in 1..Len(alerts) : alerts[i].id = alert_id
    THEN CHOOSE i \in 1..Len(alerts) :
             /\ alerts[i].id = alert_id
             /\ \A j \in 1..(i - 1) : alerts[j].id # alert_id
    ELSE 0

AcknowledgeAlert(alerts, alert_id) ==
    LET i == FirstWithId(alerts, alert_id)
    IN  IF i = 0 THEN [alerts |-> alerts, ret |-> FALSE]
        ELSE [alerts |-> [alerts EXCEPT ![i].acknowledged = TRUE], ret |-> TRUE]

\* level is an Optional[AlertLevel]
GetActiveAlerts(alerts, level) ==
    LET active == SelectSeq(alerts, LAMBDA a : ~a.acknowledged)
    IN  IF level # Nothing
        THEN SelectSeq(active, LAMBDA a : a.level = level[1])
        ELSE active

AlertManager(max_alerts) ==
    [max_alerts |-> max_alerts,
     alerts     |-> <<>>,
     created    |-> 0,                \* create_alert calls so far
     op         |-> "__init__",       \* the last call, its id and what it returned
     id         |-> "",
     ret        |-> FALSE,
     active     |-> <<>>]

AlertInit == alert_manager = AlertManager(MaxAlerts)

new_alert_manager(max_alerts) == alert_manager' = AlertManager(max_alerts)

create_alert(alert_id, level) ==
    /\ alert_manager.created < MaxCreated
    /\ LET alert == Alert(alert_id, level, alert_manager.created + 1)
       IN  alert_manager' = [alert_manager EXCEPT
               !.alerts  = CreateAlert(@, alert, alert_manager.max_alerts),
               !.created = @ + 1,
               !.op = "create_alert", !.id = alert_id, !.ret = FALSE,
               !.active = <<alert>>]

acknowledge_alert(alert_id) ==
    LET r == AcknowledgeAlert(alert_manager.alerts, alert_id)
    IN  alert_manager' = [alert_manager EXCEPT
            !.alerts = r.alerts,
            !.op = "acknowledge_alert", !.id = alert_id, !.ret = r.ret,
            !.active = <<>>]

get_active_alerts(level) ==
    alert_manager' = [alert_manager EXCEPT
        !.op = "get_active_alerts", !.id = "", !.ret = FALSE,
        !.active = GetActiveAlerts(alert_manager.alerts, level)]

AlertNext ==
    \/ \E n \in 1..MaxAlerts : new_alert_manager(n)
    \/ \E i \in AlertIds, l \in AlertLevels : create_alert(i, l)
    \/ \E i \in AlertIds : acknowledge_alert(i)
    \/ \E l \in {Nothing} \cup {Some(x) : x \in AlertLevels} : get_active_alerts(l)


(***************************************************************************)
(* Specifications: one per subsystem, over the same state.                 *)
(***************************************************************************)
\* no asynchronous call is under way and no monitoring was started
AioIdle == FetchIdle /\ MonitorIdle /\ AlphaIdle
\* no client, portfolio or alert call was made
AuxIdle == BaseIdle /\ PortfolioInit /\ AlertInit

Init == DbInit /\ CacheInit /\ TrackerInit /\ IndIdle /\ AioIdle /\ AuxIdle
\* the initial states of an indicator call
InitInd == DbInit /\ CacheInit /\ TrackerInit /\ IndInit /\ AioIdle /\ AuxIdle

SpecPrices == Init /\ [][PricesNext /\ UNCHANGED <<cachevars, trkvars, ind, aiovars, auxvars>>]_vars
SpecDividends == Init /\ [][DividendsNext /\ UNCHANGED <<cachevars, trkvars, ind, aiovars, auxvars>>]_vars
SpecCompany == Init /\ [][CompanyNext /\ UNCHANGED <<cachevars, trkvars, ind, aiovars, auxvars>>]_vars
SpecCache == Init /\ [][CacheNext /\ UNCHANGED <<trkvars, ind, aiovars, auxvars>>]_vars
SpecCached == Init /\ [][CachedNext /\ UNCHANGED <<trkvars, ind, aiovars, auxvars>>]_vars
SpecDbCache == Init /\ [][DbCacheNext /\ UNCHANGED <<trkvars, ind, aiovars, auxvars>>]_vars
SpecTtl == Init /\ [][TtlNext /\ UNCHANGED <<trkvars, ind, aiovars, auxvars>>]_vars
SpecClear == Init /\ [][ClearNext /\ UNCHANGED <<trkvars, ind, aiovars, auxvars>>]_vars
SpecTracker == Init /\ [][TrackerNext /\ UNCHANGED <<cachevars, ind, aiovars, auxvars>>]_vars
SpecFetch ==
    Init /\ [][FetchNext /\ UNCHANGED <<dbvars, cachevars, trkvars, ind, monitor, alpha, auxvars>>]_vars
\* every provider call ends and the event loop runs what is ready
SpecFetchLive ==
    /\ SpecFetch
    /\ WF_vars(FetchNext /\ UNCHANGED <<dbvars, cachevars, trkvars, ind, monitor, alpha, auxvars>>)
SpecMonitor ==
    Init /\ [][MonitorNext /\ UNCHANGED <<dbvars, cachevars, trkvars, ind, fetch, alpha, auxvars>>]_vars
SpecAlpha ==
    Init /\ [][AlphaNext /\ UNCHANGED <<dbvars, cachevars, trkvars, ind, fetch, monitor, auxvars>>]_vars
SpecBase ==
    Init /\ [][BaseNext /\ UNCHANGED <<dbvars, cachevars, trkvars, ind, aiovars, pfvars, alert_manager>>]_vars
SpecPortfolio ==
    Init /\ [][PortfolioNext /\ UNCHANGED <<dbvars, cachevars, trkvars, ind, aiovars, base, alert_manager>>]_vars
SpecAlerts ==
    Init /\ [][AlertNext /\ UNCHANGED <<dbvars, cachevars, trkvars, ind, aiovars, base, pfvars>>]_vars
SpecInd == InitInd /\ [][IndNext /\ UNCHANGED <<dbvars, cachevars, trkvars, aiovars, auxvars>>]_vars

\* the closes and the window of an SMA, RSI or momentum call
InitRolling ==
    /\ DbInit /\ CacheInit /\ TrackerInit /\ AioIdle /\ AuxIdle
    /\ ind \in {IndInputs(CloseBars(closes), <<w, 1, 1>>) :
                closes \in SeqsUpTo(ClosePrices, MaxPoints), w \in Windows}

SpecRolling ==
    InitRolling /\ [][RollingNext /\ UNCHANGED <<dbvars, cachevars, trkvars, aiovars, auxvars>>]_vars

\* the arguments of a _generate_key call
InitKey ==
    /\ DbInit /\ CacheInit /\ TrackerInit /\ AioIdle /\ AuxIdle
    /\ ind \in {[op |-> "input", bars |-> <<>>,
                 params |-> [prefix |-> p, args |-> a, kwargs |-> k],
                 out |-> ""] :
                p \in KeyPrefixes, a \in KeyArgs, k \in KeyKwargs}

SpecKey ==
    InitKey /\ [][generate_key /\ UNCHANGED <<dbvars, cachevars, trkvars, aiovars, auxvars>>]_vars

\* the frame handed to detect_patterns
InitPatterns ==
    /\ DbInit /\ CacheInit /\ TrackerInit /\ AioIdle /\ AuxIdle
    /\ ind \in {[op |-> "input", bars |-> df, params |-> <<>>,
                 out |-> EmptyPatterns] : df \in PatternFrames}

SpecPatterns ==
    InitPatterns /\ [][detect_patterns /\ UNCHANGED <<dbvars, cachevars, trkvars, aiovars, auxvars>>]_vars

\* the closes handed to the two computations
InitReturns ==
    /\ DbInit /\ CacheInit /\ TrackerInit /\ AioIdle /\ AuxIdle
    /\ ind \in {[op |-> "input", bars |-> prices, params |-> <<>>,
                 out |-> <<>>] : prices \in PriceSeries}

SpecReturns ==
    InitReturns /\ [][ReturnsNext /\ UNCHANGED <<dbvars, cachevars, trkvars, aiovars, auxvars>>]_vars

(***************************************************************************)
(* Claims about the persistence layer.                                     *)
(***************************************************************************)
PriceRows(table, s, d) ==
    {i \in 1..Len(table) : table[i].symbol = s /\ table[i].date = d}

OnePricePerKey(table) ==
    \A s \in Symbols, d \in Days : Cardinality(PriceRows(table, s, d)) <= 1

\* C1: a save_stock_prices call, whatever batch it carries, leaves at most
\* one StockPrice row per (symbol, date) and leaves every row already stored
\* as it was (first write wins).
C1_OneRowPerKeyFirstWriteWins ==
    [][(dbres'.op = "save_stock_prices" /\ OnePricePerKey(stock_prices)) =>
          /\ OnePricePerKey(stock_prices')
          /\ \A i \in 1..Len(stock_prices) :
                 i <= Len(stock_prices') /\ stock_prices'[i] = stock_prices[i]]_vars

DividendRows(table, s, d) ==
    {i \in 1..Len(table) : table[i].symbol = s /\ table[i].ex_date = d}

C4_PersistenceErrorReturnsNormally ==
    [][dbres'.error =>
          /\ ~dbres'.raised
          /\ UNCHANGED <<stock_prices, dividends, company_info>>]_vars

CompanyRows(table, s) == {i \in 1..Len(table) : table[i].symbol = s}

\* C9: there is at most one CompanyInfo row per symbol, and a successful
\* refresh of an existing row overwrites exactly the columns whose incoming
\* value is not None; a column that is None or absent in the incoming dict
\* keeps its stored value.
C9_CompanyOverwriteNonNull ==
    [][/\ \A s \in Symbols : Cardinality(CompanyRows(company_info', s)) <= 1
       /\ (/\ dbres'.op = "save_company_info"
           /\ dbres'.ret
           /\ CompanyExists(company_info, dbres'.symbol)) =>
             \A i \in CompanyRows(company_info, dbres'.symbol) :
                 \A c \in CompanyColumns :
                     company_info'[i].col[c] =
                         IF c \in DOMAIN dbres'.arg /\ dbres'.arg[c] # None
                         THEN dbres'.arg[c]
                         ELSE company_info[i].col[c]]_vars

\* a refresh carrying sector = None has kept the stored sector "a" and
\* overwritten the name
C9_RefreshKeptSector ==
    /\ dbres.op = "save_company_info"
    /\ dbres.ret
    /\ dbres.symbol = "AFI"
    /\ dbres.arg = [name |-> "b", sector |-> None]
    /\ \E i \in 1..Len(company_info) :
           /\ company_info[i].symbol = "AFI"
           /\ company_info[i].col = [name |-> "b", sector |-> "a"]

(***************************************************************************)
(* Claims about the cache layer.                                           *)
(***************************************************************************)
\* C3: a get of a key that a successful set has stored returns a value equal
\* to the value that was set while the entry's TTL has not elapsed, and None
\* once it has elapsed, whether or not the server has dropped the entry.
C3_GetReturnsWhatWasSet ==
    [][(/\ cres'.op = "get"
        /\ client
        /\ ~cres'.raises
        /\ cres'.key \in DOMAIN redis) =>
          IF now < redis[cres'.key].expires
          THEN cres'.ret = Some(redis[cres'.key].value)
          ELSE cres'.ret = Nothing]_vars

\* C7: with the store unavailable (no client, or the store raising on the
\* call) get returns None, set and delete return False, and a method wrapped
\* by cached calls the provider and returns its fresh result.
C7_UnavailableStoreActsAsMiss ==
    [][(~client \/ cres'.raises) =>
          /\ cres'.op = "get" => cres'.ret = Nothing
          /\ cres'.op \in {"set", "delete"} => ~cres'.ok
          /\ cres'.op = "cached" => (cres'.calls = 1 /\ cres'.ret = cres'.value)]_vars

\* the store raised during a wrapped call and the provider's result came back
C7_FreshResultAlthoughStoreRaised ==
    /\ cres.op = "cached"
    /\ client
    /\ cres.raises
    /\ cres.calls = 1
    /\ cres.ret # Nothing

\* C8: with a connected cache whose operations succeed, a wrapped call that
\* finds a live entry under its generated key returns the cached value
\* without calling the provider; otherwise it calls the provider once,
\* returns its result and, if that is not None, stores it under the key so
\* that the same call repeated at once is a hit.
C8_HitSkipsProviderMissPopulates ==
    [][(/\ cres'.op \in {"cached", "async_cached"}
        /\ cres'.key # ""
        /\ Conn(cres'.op = "async_cached")
        /\ ~cres'.raises) =>
          LET key   == cres'.key
              found == RedisGet(redis, key, now)
          IN  IF found # Nothing
              THEN /\ cres'.calls = 0
                   /\ cres'.ret = Some(_deserialize_data(found[1]))
                   /\ redis' = redis
              ELSE /\ cres'.calls = 1
                   /\ cres'.ret = cres'.value
                   /\ cres'.value # Nothing =>
                         /\ key \in DOMAIN redis'
                         /\ redis'[key].data = _serialize_data(cres'.value[1])
                         /\ RedisGet(redis', key, now') # Nothing]_vars

\* a wrapped call has been answered from the entry an earlier miss stored
C8_RepeatedCallWasAHit ==
    /\ cres.op = "cached"
    /\ client
    /\ cres.calls = 0
    /\ cres.ret # Nothing
    /\ writes = 1
    /\ cres.key \in DOMAIN redis

(***************************************************************************)
(* Claims about the orchestrator, checked under SpecTracker.               *)
(***************************************************************************)
\* the primary provider delivered no price history: it raised, or returned
\* None or an empty frame
NoPriceHistory(outcome) ==
    outcome.raises \/ outcome.frame.none \/ outcome.frame.rows = <<>>

\* C5: when the primary provider delivers no price history (it raises, or
\* returns None or an empty frame), run_analysis stops after
\* get_comprehensive_data: no technical or financial analysis is made, no
\* report is displayed and the table stock_prices is left as it was,
\* whatever optional components the module found available.
C5_NoPriceHistoryAbortsRun ==
    [][(trun'.op = "run_analysis" /\ NoPriceHistory(trun'.primary)) =>
          /\ trun'.steps = <<"get_comprehensive_data">>
          /\ trun'.data.keys = {}
          /\ stock_prices' = stock_prices]_vars

\* a tracker whose store holds rows of an earlier run
\* has just aborted a run on an empty frame
C5_RunAbortedOnEmptyFrame ==
    /\ trun.op = "run_analysis"
    /\ ~trun.primary.raises /\ ~trun.primary.frame.none
    /\ trun.primary.frame.rows = <<>>
    /\ trun.steps = <<"get_comprehensive_data">>
    /\ Len(stock_prices) > 0

(***************************************************************************)
(* Claims about the indicators, checked under SpecInd.                     *)
(***************************************************************************)
\* the indicators computed with DataFrame.ewm, and those computed over
\* rolling or shifted windows
EwmIndicators == {"calculate_ema", "calculate_macd"}

\* the windows of the call made: all three of calculate_macd, the %K window
\* of calculate_stochastic, the only window of the others
WindowsOf(call) ==
    IF call.op = "calculate_macd" THEN Range(call.params) ELSE {call.params[1]}

\* an indicator was called on a series shorter than each of its windows
ShortSeries(call) ==
    call.op # "input" /\ \A w \in WindowsOf(call) : Len(call.bars) < w

SameLength(call) == \A j \in 1..Len(call.out) : Len(call.out[j]) = Len(call.bars)

AllEntries(call, kind) ==
    \A j \in 1..Len(call.out) : \A i \in 1..Len(call.out[j]) : call.out[j][i].k = kind

Sma50(df) == CalculateSma([i \in 1..Len(df) |-> Num(df[i].c, 1)], ShortWindow)
Sma200(df) == CalculateSma([i \in 1..Len(df) |-> Num(df[i].c, 1)], LongWindow)

\* the bars at which both averages are defined, as at the bar before
BothDefined(df) == (LongWindow + 1)..Len(df)

GoldenCrossBars(df) ==
    {i \in BothDefined(df) : /\ ~FLt(Sma200(df)[i - 1], Sma50(df)[i - 1])
                             /\ FLt(Sma200(df)[i], Sma50(df)[i])}

DeathCrossBars(df) ==
    {i \in BothDefined(df) : /\ ~FLt(Sma50(df)[i - 1], Sma200(df)[i - 1])
                             /\ FLt(Sma50(df)[i], Sma200(df)[i])}

\* C11: detect_patterns reports the timestamp of every bar at which SMA-50
\* crosses SMA-200 (golden: not above at the bar before and above at the
\* bar; death: the reverse), whenever both averages are defined at the bar
\* and at the bar before.
C11_EveryCrossIsReported ==
    ind.op = "detect_patterns" =>
        /\ GoldenCrossBars(ind.bars) \subseteq Range(ind.out.golden_cross)
        /\ DeathCrossBars(ind.bars) \subseteq Range(ind.out.death_cross)

(***************************************************************************)
(* Claims about the return metrics.                                        *)
(***************************************************************************)
\* the metrics dict of the last call: the returned dict of
\* calculate_returns, analysis['financial'] of perform_financial_analysis
Metrics ==
    IF ind.op = "perform_financial_analysis"
    THEN IF "financial" \in DOMAIN ind.out THEN ind.out.financial ELSE <<>>
    ELSE ind.out

\* the volatility of the return series of the call is zero
ZeroVolatility ==
    /\ ind.op \in {"calculate_returns", "perform_financial_analysis"}
    /\ SeriesVar(PctChange(ind.bars)) = Num(0, 1)

\* C12: wherever a Sharpe ratio is computed, a return series of zero
\* volatility yields metrics without the field sharpe_ratio: no division
\* by zero and no numeric placeholder.
C12_ZeroVolatilityOmitsSharpe ==
    ZeroVolatility => "sharpe_ratio" \notin DOMAIN Metrics

(***************************************************************************)
(* Claims about the concurrent fetch.                                      *)
(***************************************************************************)
\* the task whose dict ends up under the symbol: the last one requesting it
LastTaskOf(symbol) ==
    CHOOSE t \in DOMAIN fetch.symbols :
        /\ fetch.symbols[t] = symbol
        /\ \A u \in DOMAIN fetch.symbols : fetch.symbols[u] = symbol => u <= t

\* the returned dict has one entry per requested symbol, each holding for
\* every kind the payload of that symbol's own call, None where it raised
FetchReturnedOwnData ==
    fetch.pc = "returned" =>
        /\ \A t \in DOMAIN fetch.tasks : fetch.tasks[t] # Nothing
        /\ \A q \in DOMAIN fetch.calls : Finished(fetch.calls[q])
        /\ DOMAIN fetch.results = Range(fetch.symbols)
        /\ \A s \in Range(fetch.symbols) : \A k \in 1..Len(DataKinds) :
               fetch.results[s][k] =
                   IF fetch.calls[CallOf(LastTaskOf(s), k)] = "ok"
                   THEN Some(Payload(s, DataKinds[k])) ELSE Nothing

\* C13: get_multiple_symbols_data returns only after every per-symbol task
\* has completed, with exactly one entry per requested symbol built from
\* that symbol's own provider calls; a failed call is None in its own place
\* only, and under every interleaving the call does return.
C13_FetchReturnsOwnDataPerSymbol ==
    /\ []FetchReturnedOwnData
    /\ (fetch.pc = "awaiting") ~> (fetch.pc = "returned")

\* C13 witness: a call of the first symbol raised and the call returned
\* with None in that place and the second symbol's entry complete.
C13_OneCallFailedOtherSymbolComplete ==
    /\ fetch.pc = "returned"
    /\ fetch.symbols = <<"AFI", "CBA">>
    /\ fetch.calls[CallOf(1, 1)] = "raised"
    /\ fetch.results["AFI"][1] = Nothing
    /\ \A k \in 1..Len(DataKinds) :
           fetch.results["CBA"][k] = Some(Payload("CBA", DataKinds[k]))

(***************************************************************************)
(* Claims about clearing the cache.                                        *)
(***************************************************************************)
\* the live entry of a call, if the store holds one
HoldsEntry(store, call) ==
    GeneratedKey[call] \in DOMAIN store /\ store[GeneratedKey[call]].expires > now

\* C14: clear_cache(symbol) on a reachable store removes every cached entry
\* of that symbol and leaves the entries of every other symbol as they
\* were; clear_cache() removes every entry.
C14_ClearRemovesOnlyThatSymbol ==
    [][\A s \in ClearSymbols \cup {<<>>} :
          (/\ cres'.op = "clear_cache"
           /\ cres'.key = Spell(ClearCachePattern(s))
           /\ client /\ ~cres'.raises) =>
              \A c \in SymbolCalls :
                  HoldsEntry(redis, c) =>
                      IF s = <<>> \/ Spell(s) = SymbolOf(c)
                      THEN GeneratedKey[c] \notin DOMAIN redis'
                      ELSE /\ GeneratedKey[c] \in DOMAIN redis'
                           /\ redis'[GeneratedKey[c]] = redis[GeneratedKey[c]]]_vars

(***************************************************************************)
(* Claims about SMA, RSI and momentum.                                     *)
(***************************************************************************)
\* C15: every defined value calculate_rsi returns lies in [0, 100], where
\* the average loss of the window is zero included.
C15_RsiWithinZeroAndHundred ==
    ind.op = "calculate_rsi" =>
        \A i \in 1..Len(ind.out[1]) :
            \/ ind.out[1][i].k = "nan"
            \/ /\ ind.out[1][i].k = "num"
               /\ ~FLt(ind.out[1][i], Zero)
               /\ ~FLt(Hundred, ind.out[1][i])

\* C15 witness: closes that rise over the whole window, so that the average
\* loss is zero, give an RSI of 100.
C15_RsiOfRisingClosesIsHundred ==
    /\ ind.op = "calculate_rsi"
    /\ Close(ind.bars) = <<Num(10, 1), Num(11, 1), Num(12, 1)>>
    /\ ind.params[1] = 2
    /\ ind.out[1][3] = Hundred

\* the closes of the call as integers
Closes == [i \in 1..Len(ind.bars) |-> ind.bars[i].c]

RECURSIVE SumFrom(_, _, _)
SumFrom(s, from, to) == IF from > to THEN 0 ELSE s[from] + SumFrom(s, from + 1, to)

\* x to two decimals, in hundredths
Round2(x) == (2 * 100 * x.n + x.d) \div (2 * x.d)

ExampleCloses == <<10, 11, 12, 11, 10>>

\* C18: calculate_sma(prices, w) is undefined before position w (index
\* w-1) and the mean of the trailing w prices from there on;
\* calculate_momentum(prices, w) is undefined up to position w and
\* prices[i] - prices[i-w] afterwards.  For 10, 11, 12, 11, 10: SMA(3) is
\* undefined, undefined, 11, 11.33, 11 and momentum(1) is undefined, 1, 1,
\* -1, -1.
C18_SmaAndMomentumValues ==
    LET w == ind.params[1] IN
    /\ ind.op = "calculate_sma" =>
           /\ Len(ind.out[1]) = Len(Closes)
           /\ \A i \in 1..Len(Closes) :
                  ind.out[1][i] = IF i < w THEN NaN
                                  ELSE Num(SumFrom(Closes, i - w + 1, i), w)
           /\ (Closes = ExampleCloses /\ w = 3) =>
                  /\ ind.out[1][1] = NaN /\ ind.out[1][2] = NaN
                  /\ Round2(ind.out[1][3]) = 1100
                  /\ Round2(ind.out[1][4]) = 1133
                  /\ Round2(ind.out[1][5]) = 1100
    /\ ind.op = "calculate_momentum" =>
           /\ Len(ind.out[1]) = Len(Closes)
           /\ \A i \in 1..Len(Closes) :
                  ind.out[1][i] = IF i <= w THEN NaN
                                  ELSE Num(Closes[i] - Closes[i - w], 1)
           /\ (Closes = ExampleCloses /\ w = 1) =>
                  ind.out[1] = <<NaN, Num(1, 1), Num(1, 1), Num(-1, 1), Num(-1, 1)>>

\* C18 witness: calculate_sma was called on 10, 11, 12, 11, 10 with window 3.
C18_ExampleSma ==
    /\ ind.op = "calculate_sma"
    /\ Closes = ExampleCloses
    /\ ind.params[1] = 3
    /\ ind.out[1][4] = Num(34, 3)

(***************************************************************************)
(* Claims about cache keys.                                                *)
(***************************************************************************)
\* the same keyword arguments in every order
Reorderings(kwargs) ==
    {q \in [1..Len(kwargs) -> Range(kwargs)] : Range(q) = Range(kwargs)}

\* prefix:arg:...:name=value:... with the names in alphabetical order
PlainForm(prefix, args, kwargs) ==
    LET named(k) == {p \in Range(kwargs) : p[1] = k}
        item(k)  == IF named(k) = {} THEN <<>>
                    ELSE <<k \o "=" \o (CHOOSE p \in named(k) : TRUE)[2]>>
        items    == item("period") \o item("symbol")
    IN  prefix \o ":" \o Join(args, ":")
            \o (IF items = <<>> THEN "" ELSE ":" \o Join(items, ":"))

\* C16: _generate_key gives the same key for the same name, the same
\* positional arguments in order and the same keyword arguments in any
\* order; the key is the plain form when that has at most 200 characters
\* and '<prefix>:hash:<digest of the plain form>' when it is longer.
C16_KeyIgnoresKeywordOrderAndHashesLongKeys ==
    ind.op = "_generate_key" =>
        LET a     == ind.params
            plain == PlainForm(a.prefix, a.args, a.kwargs)
        IN  /\ \A q \in Reorderings(a.kwargs) :
                   _generate_key(a.prefix, a.args, q) = ind.out
            /\ ind.out = IF Len(plain) > 200
                         THEN a.prefix \o ":hash:" \o Md5(plain)
                         ELSE plain

\* C16 witness: symbol was passed before period and the key names period
\* first.
C16_KeywordsSortedInKey ==
    /\ ind.op = "_generate_key"
    /\ ind.params.kwargs = <<<<"symbol", "AFI">>, <<"period", "1y">>>>
    /\ ind.params.args = <<>>
    /\ ind.out = ind.params.prefix \o "::period=1y:symbol=AFI"

(***************************************************************************)
(* Claims about the time to live of cache entries.                         *)
(***************************************************************************)
\* the table of the claim: seconds per category, 1800 for any other
ClaimedTtl(cache_type) ==
    CASE cache_type = "stock_price_current"    -> 60
      [] cache_type = "stock_price_historical" -> 3600
      [] cache_type = "company_info"           -> 86400
      [] cache_type = "dividends"              -> 86400
      [] cache_type = "technical_indicators"   -> 1800
      [] cache_type = "news"                   -> 900
      [] OTHER                                 -> 1800

\* every entry of the store has an expiry
AllExpire(store) == \A k \in DOMAIN store : store[k].expires # NeverExpires

\* C17 as stated: a set that stores an entry gives it the passed ttl
\* whenever one is passed, else the ttl of its category, and no entry is
\* without expiry.
C17_PassedTtlAlwaysUsed ==
    [][(cres'.op = "set" /\ cres'.ok) =>
          /\ AllExpire(redis')
          /\ \A v \in Scalars, t \in TtlValues, c \in CacheTypes :
                 set(cres'.key, v, t, c, FALSE) =>
                     redis'[cres'.key].expires =
                         now + (IF t # Nothing THEN t[1] ELSE ClaimedTtl(c))]_vars

\* C17: a set that stores an entry gives it the passed ttl when a positive
\* one is passed and the ttl of its category (60, 3600, 86400, 1800, 900;
\* 1800 for an unknown category) when none or 0 is passed; a negative ttl
\* stores nothing; no entry is without expiry.
C17_PositiveTtlUsedElseTable ==
    [][(cres'.op = "set" /\ cres'.ok) =>
          /\ AllExpire(redis')
          /\ \A v \in Scalars, t \in TtlValues, c \in CacheTypes :
                 set(cres'.key, v, t, c, FALSE) =>
                     /\ t = Nothing \/ t[1] >= 0
                     /\ redis'[cres'.key].expires =
                            now + (IF t # Nothing /\ t[1] > 0 THEN t[1]
                                   ELSE ClaimedTtl(c))]_vars

\* C17 witness: an entry stored with the passed ttl of 7 seconds.
C17_StoredWithPassedTtl ==
    /\ cres.op = "set"
    /\ cres.ok
    /\ redis[cres.key].expires = now + 7

(***************************************************************************)
(* Claims about the monitoring service.                                    *)
(***************************************************************************)
\* C19: at most one monitoring loop is running at any time, under every
\* interleaving of start_monitoring and stop_monitoring with the sleeping
\* and waking of the loop.
C19_AtMostOneLoopRunning == Cardinality(Running(monitor.loops)) <= 1

(***************************************************************************)
(* Claims about the Alpha Vantage rate limit.                              *)
(***************************************************************************)
\* C20: no two requests of AsyncAlphaVantageClient are sent less than
\* rate_limit (12) seconds apart, the requests get_multiple_indicators
\* launches concurrently included.
C20_RequestsTwelveSecondsApart ==
    \A i, j \in DOMAIN alpha.sent :
        i < j => alpha.sent[j] - alpha.sent[i] >= RateLimit

C22_HoldingAndTransactionOrNeither ==
    [][pfres'.op = "add_portfolio_holding" =>
          IF pfres'.ret
          THEN /\ portfolio' = Append(portfolio, pfres'.holding)
               /\ \E i \in 1..Len(transactions') :
                      transactions'[i] = TransactionRow(i, pfres'.holding)
          ELSE /\ portfolio' = portfolio
               /\ transactions' = transactions]_vars

(***************************************************************************)
(* Claims about the cache table of the database.                           *)
(***************************************************************************)
\* C23: set_cached_data(key, data) on a key that already has an entry
\* replaces it: the call returns True, and a get_cached_data(key) before
\* the new expiry returns the new data rather than the old.
C23_SetReplacesExistingEntry ==
    [][\A k \in CacheKeys, v \in Containers :
          (k \in DOMAIN cache_table /\ set_cached_data(k, v, FALSE)) =>
             /\ cres'.ok
             /\ DbGetCachedData(cache_table', k, FALSE, now').ret
                    = Some(JsonLoads(JsonDumps(v)))]_vars

\* C24: the count returned by save_stock_prices equals the number of price
\* rows the call added to the store (0 when the transaction failed and was
\* rolled back), and save_stock_data returns True only if at least one row
\* of the call is stored.
C24_ReturnedCountIsRowsStored ==
    [][/\ dbres'.op = "save_stock_prices" =>
             dbres'.ret = Len(stock_prices') - Len(stock_prices)
       /\ dbres'.op = "save_stock_data" =>
             (dbres'.ret => Len(stock_prices') > Len(stock_prices))]_vars

\* the same invocation: the same name, the same positional arguments in
\* order and the same keyword arguments
SameInvocation(p, a, k, q, b, l) == p = q /\ a = b /\ Range(k) = Range(l)

\* C25: two invocations of cached operations that differ in the operation
\* name or in any argument value are never mapped to the same cache key.
C25_DifferentInvocationsDifferentKeys ==
    ind.op = "_generate_key" =>
        \A p \in KeyPrefixes, a \in KeyArgs, k \in KeyKwargs :
            _generate_key(p, a, k) = ind.out =>
                SameInvocation(p, a, k, ind.params.prefix, ind.params.args,
                               ind.params.kwargs)

(***************************************************************************)
(* Claims about the alerts.                                                *)
(***************************************************************************)
StoredWithId(alerts, id) == {i \in 1..Len(alerts) : alerts[i].id = id}

\* C26: after acknowledge_alert(id) returns True, get_active_alerts returns
\* no alert with that id; acknowledge_alert returns False and changes
\* nothing exactly when no stored alert has that id.
C26_AcknowledgedIdNoLongerActive ==
    [][alert_manager'.op = "acknowledge_alert" =>
          LET id     == alert_manager'.id
              active == GetActiveAlerts(alert_manager'.alerts, Nothing)
          IN  /\ alert_manager'.ret =>
                    \A i \in 1..Len(active) : active[i].id # id
              /\ ~alert_manager'.ret <=> StoredWithId(alert_manager.alerts, id) = {}
              /\ ~alert_manager'.ret =>
                    alert_manager'.alerts = alert_manager.alerts]_vars

\* C27: after any sequence of create_alert calls the list holds at most
\* max_alerts alerts ordered newest first, the alert just created is
\* retained, and when the limit is exceeded exactly the oldest alerts are
\* discarded.
C27_NewestAlertsKeptNewestFirst ==
    [][alert_manager'.op = "create_alert" =>
          LET old  == alert_manager.alerts
              new  == alert_manager'.alerts
              kept == {new[i].timestamp : i \in 2..Len(new)}
              gone == {old[i].timestamp : i \in 1..Len(old)} \ kept
          IN  /\ Len(new) <= alert_manager.max_alerts
              /\ Len(new) >= 1
              /\ new[1] = alert_manager'.active[1]
              /\ new[1].id = alert_manager'.id
              /\ \A i, j \in 1..Len(new) :
                     i < j => new[i].timestamp > new[j].timestamp
              /\ \A i \in 2..Len(new) : new[i] \in Range(old)
              /\ \A g \in gone, k \in kept : g < k
              /\ Cardinality(gone) =
                     IF Len(old) + 1 > alert_manager.max_alerts
                     THEN Len(old) + 1 - alert_manager.max_alerts ELSE 0]_vars

\* the list was full and a create_alert has discarded its oldest alert
C27_OldestAlertDiscarded ==
    /\ alert_manager.op = "create_alert"
    /\ alert_manager.max_alerts = 2
    /\ Len(alert_manager.alerts) = 2
    /\ alert_manager.created = 3
    /\ alert_manager.alerts[1].timestamp = 3
    /\ alert_manager.alerts[2].timestamp = 2

====
